---- MODULE Spec2Model ----
(***************************************************************************)
(* Meridian Community Bank synthetic data environment.                     *)
(*                                                                         *)
(* A model of the generation pipeline: the orchestrator (generate_all.py), *)
(* the ID registry and the bulk persistence adapter (relationships.py),    *)
(* the Customers stage (generate_customers.py), the Accounts stage         *)
(* (generate_accounts.py), the Transactions stage                          *)
(* (generate_transactions.py), the General Ledger stage                    *)
(* (generate_gl_entries.py) and the Warehouse stage                        *)
(* (generate_warehouse.py).  Every part has its own variables and its own  *)
(* specification; a part leaves the other parts' variables unchanged.      *)
(***************************************************************************)
EXTENDS Integers, Sequences, FiniteSets, TLC

\* ------------------------------------------------------------------------
\* Bounds of the model
\* ------------------------------------------------------------------------
\* Number of times the orchestrator process is started (first run + resumes)
MaxRuns == 2
\* Longest id list handed to register in the registry part
MaxIds == 2
\* Largest n asked of get_random_ids
MaxSample == 2
\* Number of bulk_insert calls in the persistence part
MaxCalls == 3
\* customer_count of the configuration, in the Accounts part
CUSTOMER_COUNT == 2
\* orphaned_accounts of the configuration
ORPHANED_ACCOUNTS == 2
\* days of general ledger activity (184 in generate_gl_entries)
GlDays == 3
\* most journals drawn for one day (at least one is drawn)
MaxJournals == 2
\* buffered entries that trigger a flush (10000 in generate_gl_entries)
GlFlushAt == 4
\* most rows one customer or account has in a source table the warehouse joins
MaxPerCustomer == 1
\* number of warehouse builds (the first build and its re-runs)
MaxBuilds == 2
\* most transactions drawn for one account (at least one is drawn)
MaxTxns == 2
\* zero_amount_transactions of the configuration
ZERO_AMOUNT_TXNS == 1
\* buffered transactions that trigger an insert (50000 in generate_transactions)
TxnFlushAt == 2
\* most accounts in core_banking.accounts when the Transactions stage runs
MaxAccounts == 2
\* largest missing_postcode_count of the configuration
MISSING_POSTCODE_COUNT == 2
\* largest customer_count for which the personal/business split is computed
MaxCustomerCount == 50

\* the number of pieces a query is put together from
MaxPieces == 3

\* flagged customers, alerts beyond five per flagged customer, and
\* interactions of one contact
MaxFlagged == 1
MaxExtraAlerts == 1
MaxInteractions == 1

\* ------------------------------------------------------------------------
\* Small helpers
\* ------------------------------------------------------------------------
EmptyFn == [x \in {} |-> 0]

Range(s) == {s[i] : i \in DOMAIN s}

\* the primary keys 1..n the store assigned to the n rows of a table
Ids(n) == [i \in 1..n |-> i]

\* ------------------------------------------------------------------------
\* ID registry (relationships.py, class IDRegistry)
\* The store is a function whose DOMAIN is the set of registered types.
\* ------------------------------------------------------------------------
\* a register that starts the store afresh
registerFresh(s, t, ids) == [k \in {t} |-> ids]

\* a register that adds the ids to the ones already stored
registerAppend(s, t, ids) ==
    [k \in (DOMAIN s) \cup {t} |->
        IF k # t THEN s[k] ELSE IF t \in DOMAIN s THEN s[t] \o ids ELSE ids]

register(s, t, ids) ==
    [k \in (DOMAIN s) \cup {t} |-> IF k = t THEN ids ELSE s[k]]

\* a lookup that answers an unregistered type with no ids
get_idsOrEmpty(s, t) ==
    IF t \notin DOMAIN s
    THEN [kind |-> "ok", ids |-> <<>>]
    ELSE [kind |-> "ok", ids |-> s[t]]

get_ids(s, t) ==
    IF t \notin DOMAIN s
    THEN [kind |-> "KeyError", requested |-> t, available |-> DOMAIN s]
    ELSE [kind |-> "ok", ids |-> s[t]]

\* get_random_ids: n ids drawn with replacement; draw[i] is the position the
\* random source picks for the i-th sample.  numpy's choice raises ValueError
\* when samples are asked of an empty array.
get_random_ids(s, t, n, draw) ==
    LET r == get_ids(s, t)
    IN IF r.kind # "ok" THEN r
       ELSE IF Len(r.ids) = 0 /\ n > 0 THEN [kind |-> "ValueError"]
       ELSE [kind |-> "ok", ids |-> [i \in 1..n |-> r.ids[draw[i]]]]

\* get_random_id: the first of one drawn id
get_random_id(s, t, draw) ==
    LET r == get_random_ids(s, t, 1, draw)
    IN IF r.kind # "ok" THEN r ELSE [kind |-> "ok", id |-> r.ids[1]]

count(s, t) ==
    LET r == get_ids(s, t)
    IN IF r.kind # "ok" THEN r ELSE [kind |-> "ok", n |-> Len(r.ids)]

summary_of(s) == [k \in DOMAIN s |-> Len(s[k])]

\* ------------------------------------------------------------------------
\* The generator functions: what each one reads from the registry, the
\* table it fills, the types it registers, the offset of its numpy stream
\* (-1: it draws nothing), whether it draws from the Faker stream, and
\* whether it commits its rows in several bulk_insert calls.
\* ------------------------------------------------------------------------
Gen(name, table, reads, regs, offset, faker, chunked) ==
    [name |-> name, table |-> table, reads |-> reads, regs |-> regs,
     offset |-> offset, faker |-> faker, chunked |-> chunked]

Generators ==
  { Gen("generate_products", "core_banking.products", {},
        {"product_ids", "products_by_category"}, -1, FALSE, FALSE),
    Gen("generate_chart_of_accounts", "gl.chart_of_accounts", {},
        {"gl_posting_codes"}, -1, FALSE, FALSE),
    Gen("generate_cost_centres", "gl.cost_centres", {},
        {"cost_centre_codes"}, -1, FALSE, FALSE),
    Gen("generate_payment_schemes", "payments.payment_schemes", {},
        {"scheme_ids", "scheme_map"}, -1, FALSE, FALSE),
    Gen("generate_branches", "warehouse_core.dim_branch", {}, {}, -1, FALSE, FALSE),
    Gen("generate_date_dimension", "warehouse_core.dim_date", {}, {}, -1, FALSE, FALSE),
    Gen("generate_customers", "core_banking.customers", {},
        {"customer_ids", "personal_customer_ids", "business_customer_ids",
         "active_customer_ids"}, 0, TRUE, FALSE),
    Gen("generate_addresses", "core_banking.addresses", {"customer_ids"}, {},
        1, TRUE, FALSE),
    Gen("generate_accounts", "core_banking.accounts",
        {"personal_customer_ids", "business_customer_ids"},
        {"account_ids", "active_account_ids", "account_customer_map"},
        10, FALSE, FALSE),
    Gen("generate_credit_scores", "risk.credit_scores", {"active_customer_ids"}, {},
        30, FALSE, FALSE),
    Gen("generate_credit_applications", "risk.credit_applications",
        {"active_customer_ids"}, {}, 31, FALSE, FALSE),
    Gen("generate_aml_alerts", "risk.aml_alerts", {"active_customer_ids"}, {},
        32, FALSE, FALSE),
    Gen("generate_aml_cases", "risk.aml_cases", {}, {}, 33, FALSE, FALSE),
    Gen("generate_sanctions_screening", "risk.sanctions_screening",
        {"active_customer_ids"}, {}, 34, FALSE, FALSE),
    Gen("generate_risk_assessments", "risk.risk_assessments",
        {"active_customer_ids"}, {}, 35, FALSE, FALSE),
    Gen("generate_regulatory_reports", "risk.regulatory_reports", {}, {},
        36, FALSE, FALSE),
    Gen("generate_transactions", "core_banking.transactions", {}, {},
        20, FALSE, TRUE),
    Gen("generate_gl_entries", "gl.gl_entries", {}, {}, 40, FALSE, TRUE),
    Gen("generate_gl_balances", "gl.gl_balances", {}, {}, 41, FALSE, FALSE),
    Gen("generate_treasury_positions", "treasury.positions", {}, {}, 50, FALSE, FALSE),
    Gen("generate_fx_rates", "treasury.fx_rates", {}, {}, 51, FALSE, FALSE),
    Gen("generate_interbank", "treasury.interbank_lending", {}, {}, 52, FALSE, FALSE),
    Gen("generate_liquidity_pool", "treasury.liquidity_pool", {}, {}, 53, FALSE, FALSE),
    Gen("generate_contacts", "crm.contacts", {}, {"contact_map"}, 60, TRUE, FALSE),
    Gen("generate_interactions", "crm.interactions", {}, {}, 61, TRUE, TRUE),
    Gen("generate_complaints", "crm.complaints", {"active_customer_ids"}, {},
        62, TRUE, FALSE),
    Gen("generate_marketing_consents", "crm.marketing_consents", {"customer_ids"}, {},
        63, FALSE, TRUE),
    Gen("generate_segments", "crm.segments", {}, {}, 64, FALSE, FALSE),
    Gen("generate_standing_orders", "core_banking.standing_orders", {}, {},
        70, FALSE, FALSE),
    Gen("generate_direct_debits", "core_banking.direct_debits", {}, {},
        71, FALSE, FALSE),
    Gen("generate_payment_flows", "payments.payment_instructions", {}, {},
        72, FALSE, TRUE),
    Gen("populate_staging", "warehouse_staging", {}, {}, -1, FALSE, TRUE),
    Gen("populate_core_dimensions", "warehouse_core.dims", {}, {}, -1, FALSE, TRUE),
    Gen("populate_core_facts", "warehouse_core.facts", {}, {}, -1, FALSE, TRUE),
    Gen("populate_reporting", "warehouse_reporting", {}, {}, 80, FALSE, TRUE) }

GenOf(name) == CHOOSE g \in Generators : g.name = name

Tables == {g.table : g \in Generators}

\* the generator that registers entity type t
Producer(t) == CHOOSE g \in Generators : t \in g.regs

\* run() of each generator module: the generator functions it calls, in order
run(module) ==
    CASE module = "generators.generate_reference_data" ->
           <<"generate_products", "generate_chart_of_accounts",
             "generate_cost_centres", "generate_payment_schemes",
             "generate_branches", "generate_date_dimension">>
      [] module = "generators.generate_customers" ->
           <<"generate_customers", "generate_addresses">>
      [] module = "generators.generate_accounts" -> <<"generate_accounts">>
      [] module = "generators.generate_risk_data" ->
           <<"generate_credit_scores", "generate_credit_applications",
             "generate_aml_alerts", "generate_aml_cases",
             "generate_sanctions_screening", "generate_risk_assessments",
             "generate_regulatory_reports">>
      [] module = "generators.generate_transactions" -> <<"generate_transactions">>
      [] module = "generators.generate_gl_entries" ->
           <<"generate_gl_entries", "generate_gl_balances">>
      [] module = "generators.generate_treasury" ->
           <<"generate_treasury_positions", "generate_fx_rates",
             "generate_interbank", "generate_liquidity_pool">>
      [] module = "generators.generate_crm_data" ->
           <<"generate_contacts", "generate_interactions", "generate_complaints",
             "generate_marketing_consents", "generate_segments">>
      [] module = "generators.generate_payments" ->
           <<"generate_standing_orders", "generate_direct_debits",
             "generate_payment_flows">>
      [] module = "generators.generate_warehouse" ->
           <<"populate_staging", "populate_core_dimensions",
             "populate_core_facts", "populate_reporting">>

\* modules whose import executes Faker.seed(SEED)
SeedsFaker(module) ==
    module \in {"generators.generate_customers", "generators.generate_crm_data"}

\* ------------------------------------------------------------------------
\* Orchestrator (generate_all.py)
\* ------------------------------------------------------------------------
\* steps with the Accounts stage listed before the Customers stage
stepsAccountsFirst ==
    << [num |-> 1, label |-> "Reference Data",
        module |-> "generators.generate_reference_data"],
       [num |-> 2, label |-> "Accounts",
        module |-> "generators.generate_accounts"],
       [num |-> 3, label |-> "Customers & Addresses",
        module |-> "generators.generate_customers"],
       [num |-> 4, label |-> "Risk & Compliance",
        module |-> "generators.generate_risk_data"],
       [num |-> 5, label |-> "Transactions",
        module |-> "generators.generate_transactions"],
       [num |-> 6, label |-> "General Ledger",
        module |-> "generators.generate_gl_entries"],
       [num |-> 7, label |-> "Treasury",
        module |-> "generators.generate_treasury"],
       [num |-> 8, label |-> "CRM Data",
        module |-> "generators.generate_crm_data"],
       [num |-> 9, label |-> "Warehouse (Staging -> Core -> Reporting)",
        module |-> "generators.generate_warehouse"] >>

\* the steps list of run_generators
steps ==
    << [num |-> 1, label |-> "Reference Data",
        module |-> "generators.generate_reference_data"],
       [num |-> 2, label |-> "Customers & Addresses",
        module |-> "generators.generate_customers"],
       [num |-> 3, label |-> "Accounts",
        module |-> "generators.generate_accounts"],
       [num |-> 4, label |-> "Risk & Compliance",
        module |-> "generators.generate_risk_data"],
       [num |-> 5, label |-> "Transactions",
        module |-> "generators.generate_transactions"],
       [num |-> 6, label |-> "General Ledger",
        module |-> "generators.generate_gl_entries"],
       [num |-> 7, label |-> "Treasury",
        module |-> "generators.generate_treasury"],
       [num |-> 8, label |-> "CRM Data",
        module |-> "generators.generate_crm_data"],
       [num |-> 9, label |-> "Warehouse (Staging -> Core -> Reporting)",
        module |-> "generators.generate_warehouse"] >>

NSteps == Len(steps)

\* the generation stages the specification names (section 2, item 5 and 6)
SpecStages ==
    {"generators.generate_reference_data", "generators.generate_customers",
     "generators.generate_accounts", "generators.generate_transactions",
     "generators.generate_risk_data", "generators.generate_payments",
     "generators.generate_treasury", "generators.generate_gl_entries",
     "generators.generate_crm_data", "generators.generate_warehouse"}

\* an except clause that reports the step and lets the loop go on
ExceptHandlerContinue(step_num) ==
    [exit |-> FALSE, code |-> 1, reported |-> step_num]

\* the except clause of run_generators: report the step, sys.exit(1)
ExceptHandler(step_num) ==
    [exit |-> TRUE, code |-> 1, reported |-> step_num]

VARIABLES
    runs,        \* number of orchestrator processes started so far
    proc,        \* "none", "running", "exit0", "exit1"
    args,        \* command line of the current process
    step,        \* index in steps of the step being executed
    gi,          \* index in run(module) of the next generator function
    store,       \* registry._store of the current process
    db,          \* committed rows per table
    schema,      \* TRUE when the schemas and tables exist
    snap,        \* db as it was when the current process was started
    resumed,     \* the current process resumes the step the previous one reported
    events,      \* what the current process did, in order
    failure,     \* why the current process failed ("none" if it did not)
    reported,    \* the step number printed by the except clause (0: none)
    summary,     \* print_summary was called
    fakerSeed,   \* step whose module import last ran Faker.seed (0: unseeded)
    draws        \* (generator, random stream) pairs of the current process

orchVars == <<runs, proc, args, step, gi, store, db, schema, snap, resumed,
              events, failure, reported, summary, fakerSeed, draws>>

\* ---- registry part: an IDRegistry driven by arbitrary calls ----
VARIABLES
    rstore,      \* _store of the registry
    rcall,       \* the last call: [op, t], and ids for a register call
    rres         \* what the last call returned or raised

regVars == <<rstore, rcall, rres>>

\* ---- persistence part: bulk_insert calls on one table ----
VARIABLES
    bpc,         \* "idle", "batches", "returned", "raised"
    bcalls,      \* number of bulk_insert calls made
    blen,        \* len(records) of the current call
    bi,          \* loop variable i of the current call
    btx,         \* rows of the current call executed in the open transaction
    bcommits,    \* commits issued by the current call
    btable       \* committed rows per call

bulkVars == <<bpc, bcalls, blen, bi, btx, bcommits, btable>>

\* ---- Accounts part: generate_accounts after the Customers stage ----
VARIABLES
    apc,         \* position in generate_accounts
    anp,         \* number of personal customers (the others are business)
    ai,          \* loop position in the customer list being walked
    arecords,    \* the records list
    afk,         \* accounts_customer_id_fkey: "valid", "dropped", "not_valid"
    atable,      \* rows of core_banking.accounts, account_id = position
    areg,        \* the registry
    adraw,       \* the stream of (sort code, account number) draws of this run
    apos,        \* number of draws make_unique_account has consumed
    used_account_numbers  \* the keys make_unique_account has handed out

accVars == <<apc, anp, ai, arecords, afk, atable, areg, adraw, apos,
             used_account_numbers>>

\* ---- General Ledger part: generate_gl_entries ----
VARIABLES
    gpc,         \* position in generate_gl_entries
    gimb,        \* GL_IMBALANCE_BATCH of the configuration
    gday,        \* day_offset of the next day
    gjournal,    \* journal_counter
    grecords,    \* the records buffer
    gtable       \* rows of gl.gl_entries

glVars == <<gpc, gimb, gday, gjournal, grecords, gtable>>

\* ---- Warehouse part: generate_warehouse.run and a rebuild ----
VARIABLES
    wpc,         \* position in run(): the phase to run next
    wbuild,      \* number of the build under way
    wsrc,        \* the source-system state the build reads
    wcfg,        \* STALE_TABLE_COUNT and WAREHOUSE_BATCH_DATE of the configuration
    wnow,        \* the database clock (CURRENT_DATE, now())
    wh,          \* rows of the warehouse tables
    wkeys,       \* last value of the surrogate key sequences
    wfirst,      \* the first completed build and its row counts
    wreport      \* number of stale tables the staging phase printed

whVars == <<wpc, wbuild, wsrc, wcfg, wnow, wh, wkeys, wfirst, wreport>>

\* ---- Transactions part: generate_transactions ----
VARIABLES
    tpc,         \* position in generate_transactions
    taccounts,   \* accounts: the rows the query returned
    tacct,       \* position in the account loop
    tn,          \* n_txns of the current account
    ti,          \* i of the inner loop
    trecords,    \* all_records
    ttable,      \* rows of core_banking.transactions
    tzero,       \* zero_amount_inserted
    treport,     \* the zero-amount count the stage printed
    tsrc,        \* rows of core_banking.accounts joined to products and
                 \* customers, account_id = position
    trng,        \* the stream of random draws of this run
    ttotal       \* total_txns

txVars == <<tpc, taccounts, tacct, tn, ti, trecords, ttable, tzero, treport,
            tsrc, trng, ttotal>>

\* ---- Customers part: generate_customers.run ----
VARIABLES
    cpc,         \* position in generate_customers and generate_addresses
    ccfg,        \* customer_count, personal_ratio (in hundredths) and
                 \* missing_postcode_count of the configuration
    csplit,      \* n_personal and n_business
    ci,          \* loop variable of the loop under way
    crecords,    \* the records list of the function under way
    ctable,      \* rows of core_banking.customers, customer_id = position
    creg,        \* the registry
    cmissing,    \* missing_postcode_customers
    caddresses   \* rows of core_banking.addresses

custVars == <<cpc, ccfg, csplit, ci, crecords, ctable, creg, cmissing, caddresses>>

\* ---- query tools part: one call of dispatch_tool ----
VARIABLES
    qpc,         \* "call" before the call, then "returned" or "raised"
    qcall,       \* tool_name and arguments of the call
    qenv,        \* whether the database, the catalog files or the ontology
                 \* the tool relies on work or fail
    qres,        \* the value returned, or the exception raised
    dbsent       \* the statements passed to conn.execute

toolVars == <<qpc, qcall, qenv, qres, dbsent>>

\* ---- references part: the generator functions of a full run ----
VARIABLES
    fpc,         \* the generator function to run next, "done" or "failed"
    fcfg,        \* the customers, and the flagged customers and alerts that
                 \* customer_count and aml_flag_ratio give
    ftab,        \* the rows of every table
    freg         \* the registry

refVars == <<fpc, fcfg, ftab, freg>>

vars == <<orchVars, regVars, bulkVars, accVars, glVars, whVars, txVars, custVars,
          toolVars, refVars>>

\* what the actions of one part leave unchanged
orchOthers == <<regVars, bulkVars, accVars, glVars, whVars, txVars, custVars,
    toolVars, refVars>>

regOthers == <<orchVars, bulkVars, accVars, glVars, whVars, txVars, custVars,
    toolVars, refVars>>

bulkOthers == <<orchVars, regVars, accVars, glVars, whVars, txVars, custVars,
    toolVars, refVars>>

accOthers == <<orchVars, regVars, bulkVars, glVars, whVars, txVars, custVars,
    toolVars, refVars>>

glOthers == <<orchVars, regVars, bulkVars, accVars, whVars, txVars, custVars,
    toolVars, refVars>>

whOthers == <<orchVars, regVars, bulkVars, accVars, glVars, txVars, custVars,
    toolVars, refVars>>

txOthers == <<orchVars, regVars, bulkVars, accVars, glVars, whVars, custVars,
    toolVars, refVars>>

custOthers == <<orchVars, regVars, bulkVars, accVars, glVars, whVars, txVars,
    toolVars, refVars>>

toolOthers == <<orchVars, regVars, bulkVars, accVars, glVars, whVars, txVars,
    custVars, refVars>>

refOthers == <<orchVars, regVars, bulkVars, accVars, glVars, whVars, txVars,
    custVars, toolVars>>

ArgSet == [schema_only : BOOLEAN, step : 1..(NSteps + 1), no_schema : BOOLEAN]

NoArgs == [schema_only |-> FALSE, step |-> 1, no_schema |-> FALSE]

\* the command lines the operator uses: a run from step 1, a resume from the
\* step the previous process reported, or a step past the last one
StepChoices(rep) == {1, NSteps + 1} \cup (IF rep > 0 THEN {rep} ELSE {})

Commands(rep) == {a \in ArgSet : a.step \in StepChoices(rep)}

OrchInit ==
    /\ runs = 0
    /\ proc = "none"
    /\ args = NoArgs
    /\ step = 1
    /\ gi = 1
    /\ store = EmptyFn
    /\ db = [t \in Tables |-> 0]
    /\ schema = FALSE
    /\ snap = [t \in Tables |-> 0]
    /\ resumed = FALSE
    /\ events = <<>>
    /\ failure = "none"
    /\ reported = 0
    /\ summary = FALSE
    /\ fakerSeed = 0
    /\ draws = {}

\* one entry of the event log
E(ev, n, x) == [ev |-> ev, n |-> n, x |-> x]

RECURSIVE SeqOfSet(_)
SeqOfSet(S) ==
    IF S = {} THEN <<>>
    ELSE LET x == CHOOSE y \in S : TRUE IN <<x>> \o SeqOfSet(S \ {x})

RECURSIVE RegisterAll(_, _, _)
RegisterAll(s, ts, ids) ==
    IF ts = <<>> THEN s
    ELSE RegisterAll(register(s, Head(ts), ids), Tail(ts), ids)

\* rows one call of a generator function commits
RowsOf(g) == IF g.chunked THEN 2 ELSE 1

\* the generator function the current process is about to call
CurModule == steps[step].module
CurGen == GenOf(run(CurModule)[gi])

\* the random streams generator g draws from
StreamsOf(g, seeded) ==
    (IF g.offset >= 0 THEN {[gen |-> g.name, kind |-> "numpy", seed |-> g.offset]}
     ELSE {})
    \cup
    (IF g.faker THEN {[gen |-> g.name, kind |-> "faker", seed |-> seeded]} ELSE {})

\* __import__(module_name): the import of two modules re-seeds Faker
ImportSeed(k, old) == IF SeedsFaker(steps[k].module) THEN k ELSE old

\* the for loop of run_generators moves on after step `step`; evs is what the
\* process logged so far.  After the last step print_summary runs and the
\* process ends normally.
LoopNext(evs) ==
    IF step < NSteps
    THEN /\ step' = step + 1
         /\ gi' = 1
         /\ proc' = "running"
         /\ summary' = summary
         /\ fakerSeed' = ImportSeed(step + 1, fakerSeed)
         /\ events' = evs \o <<E("start", steps[step + 1].num, "")>>
    ELSE /\ step' = step
         /\ gi' = gi
         /\ proc' = "exit0"
         /\ summary' = TRUE
         /\ fakerSeed' = fakerSeed
         /\ events' = evs \o <<E("summary", 0, "")>>

\* main(): a new process.  setup_database drops and recreates every schema
\* unless --no-schema; run_generators starts at --step unless --schema-only.
Main(a) ==
    /\ proc # "running"
    /\ runs < MaxRuns
    /\ runs' = runs + 1
    /\ args' = a
    /\ store' = EmptyFn
    /\ snap' = db
    /\ resumed' = (proc = "exit1" /\ reported = a.step /\ ~a.schema_only)
    /\ failure' = "none"
    /\ reported' = 0
    /\ draws' = {}
    /\ IF a.no_schema
       THEN UNCHANGED <<db, schema>>
       ELSE /\ db' = [t \in Tables |-> 0]
            /\ schema' = TRUE
    /\ IF a.schema_only
       THEN /\ proc' = "exit0"
            /\ summary' = FALSE
            /\ events' = <<>>
            /\ fakerSeed' = 0
            /\ UNCHANGED <<step, gi>>
       ELSE IF a.step > NSteps
       THEN /\ proc' = "exit0"
            /\ summary' = TRUE
            /\ events' = <<E("summary", 0, "")>>
            /\ fakerSeed' = 0
            /\ UNCHANGED <<step, gi>>
       ELSE /\ proc' = "running"
            /\ summary' = FALSE
            /\ step' = a.step
            /\ gi' = 1
            /\ fakerSeed' = ImportSeed(a.step, 0)
            /\ events' = <<E("start", steps[a.step].num, "")>>
    /\ UNCHANGED orchOthers

\* setup_database cannot connect: sys.exit(1) before anything is touched
MainConnFail(a) ==
    /\ proc # "running"
    /\ runs < MaxRuns
    /\ ~a.no_schema
    /\ runs' = runs + 1
    /\ args' = a
    /\ store' = EmptyFn
    /\ snap' = db
    /\ resumed' = (proc = "exit1" /\ reported = a.step /\ ~a.schema_only)
    /\ failure' = "connect"
    /\ reported' = 0
    /\ draws' = {}
    /\ proc' = "exit1"
    /\ summary' = FALSE
    /\ events' = <<>>
    /\ fakerSeed' = 0
    /\ UNCHANGED <<db, schema, step, gi>>
    /\ UNCHANGED orchOthers

ReadEvents(g) == [i \in 1..Len(SeqOfSet(g.reads)) |->
                     E("get_ids", 0, SeqOfSet(g.reads)[i])]

RegEvents(g) == [i \in 1..Len(SeqOfSet(g.regs)) |->
                     E("register", 0, SeqOfSet(g.regs)[i])]

\* one generator function runs to its end: registry reads, bulk_insert,
\* read-back of the assigned keys, register
GenOk ==
    /\ proc = "running"
    /\ schema
    /\ LET g == CurGen
           evs == events \o ReadEvents(g) \o <<E("persist", 0, g.name)>>
                         \o RegEvents(g)
       IN /\ \A r \in g.reads : get_ids(store, r).kind = "ok"
          /\ db' = [db EXCEPT ![g.table] = @ + RowsOf(g)]
          /\ store' = RegisterAll(store, SeqOfSet(g.regs), Ids(db'[g.table]))
          /\ draws' = draws \cup StreamsOf(g, fakerSeed)
          /\ IF gi < Len(run(CurModule))
             THEN /\ gi' = gi + 1
                  /\ events' = evs
                  /\ UNCHANGED <<step, proc, summary, fakerSeed>>
             ELSE LoopNext(evs \o <<E("done", steps[step].num, "")>>)
    /\ UNCHANGED <<runs, args, schema, snap, resumed, failure, reported>>
    /\ UNCHANGED orchOthers

\* what the except clause of run_generators does with an exception of a step
Caught(kind, evs) ==
    LET h == ExceptHandler(steps[step].num)
    IN /\ failure' = kind
       /\ reported' = h.reported
       /\ IF h.exit
          THEN /\ proc' = IF h.code = 0 THEN "exit0" ELSE "exit1"
               /\ events' = evs \o <<E("fail", steps[step].num, "")>>
               /\ UNCHANGED <<step, gi, summary, fakerSeed>>
          ELSE LoopNext(evs \o <<E("fail", steps[step].num, "")>>)

\* a generator function asks the registry for a type nobody registered
GenKeyError ==
    /\ proc = "running"
    /\ LET g == CurGen
       IN \E r \in g.reads :
            /\ get_ids(store, r).kind = "KeyError"
            /\ Caught("KeyError", events \o <<E("get_ids_failed", 0, r)>>)
    /\ UNCHANGED <<runs, args, store, db, schema, snap, resumed, draws>>
    /\ UNCHANGED orchOthers

\* the store raises inside a generator function (always, when the tables do
\* not exist); a function that commits in chunks may leave chunks behind
GenInsertFail ==
    /\ proc = "running"
    /\ LET g == CurGen
       IN /\ \A r \in g.reads : get_ids(store, r).kind = "ok"
          /\ \E k \in 0..(RowsOf(g) - 1) :
               /\ (~schema) => k = 0
               /\ db' = [db EXCEPT ![g.table] = @ + k]
          /\ draws' = draws \cup StreamsOf(g, fakerSeed)
          /\ Caught("insert", events \o ReadEvents(g)
                                \o <<E("insert_failed", 0, g.name)>>)
    /\ UNCHANGED <<runs, args, store, schema, snap, resumed>>
    /\ UNCHANGED orchOthers

OrchNext ==
    \/ \E a \in Commands(reported) : Main(a)
    \/ \E a \in Commands(reported) : MainConnFail(a)
    \/ GenOk
    \/ GenKeyError
    \/ GenInsertFail

\* ------------------------------------------------------------------------
\* Registry part: any sequence of calls on one IDRegistry
\* ------------------------------------------------------------------------
RTypes == {"customer_ids", "account_ids"}

RIdVals == {1, 2}

\* the id lists of length at most n
IdLists(n) == UNION {[1..k -> RIdVals] : k \in 0..n}

RegInit ==
    /\ rstore = EmptyFn
    /\ rcall = [op |-> "init", t |-> ""]
    /\ rres = [kind |-> "ok"]

RegRegister(t, ids) ==
    /\ rstore' = register(rstore, t, ids)
    /\ rcall' = [op |-> "register", t |-> t, ids |-> ids]
    /\ rres' = [kind |-> "ok"]
    /\ UNCHANGED regOthers

RegGetIds(t) ==
    /\ rres' = get_ids(rstore, t)
    /\ rcall' = [op |-> "get_ids", t |-> t]
    /\ UNCHANGED rstore
    /\ UNCHANGED regOthers

RegCount(t) ==
    /\ rres' = count(rstore, t)
    /\ rcall' = [op |-> "count", t |-> t]
    /\ UNCHANGED rstore
    /\ UNCHANGED regOthers

\* the positions a random source can pick for n samples of the ids of t
Draws(t, n) ==
    IF t \in DOMAIN rstore /\ Len(rstore[t]) > 0
    THEN [1..n -> 1..Len(rstore[t])]
    ELSE {<<>>}

RegGetRandomIds(t, n) ==
    /\ \E draw \in Draws(t, n) : rres' = get_random_ids(rstore, t, n, draw)
    /\ rcall' = [op |-> "get_random_ids", t |-> t]
    /\ UNCHANGED rstore
    /\ UNCHANGED regOthers

RegGetRandomId(t) ==
    /\ \E draw \in Draws(t, 1) : rres' = get_random_id(rstore, t, draw)
    /\ rcall' = [op |-> "get_random_id", t |-> t]
    /\ UNCHANGED rstore
    /\ UNCHANGED regOthers

RegSummary ==
    /\ rres' = [kind |-> "ok", summary |-> summary_of(rstore)]
    /\ rcall' = [op |-> "summary", t |-> ""]
    /\ UNCHANGED rstore
    /\ UNCHANGED regOthers

RegNext ==
    \/ \E t \in RTypes : \E ids \in IdLists(MaxIds) : RegRegister(t, ids)
    \/ \E t \in RTypes : RegGetIds(t)
    \/ \E t \in RTypes : RegCount(t)
    \/ \E t \in RTypes : \E n \in 0..MaxSample : RegGetRandomIds(t, n)
    \/ \E t \in RTypes : RegGetRandomId(t)
    \/ RegSummary

\* ------------------------------------------------------------------------
\* Persistence part: bulk_insert (relationships.py).  The rows of a call are
\* executed in order, so the open transaction and the table are described
\* by how many rows of each call they hold.
\* ------------------------------------------------------------------------
BATCH_SIZE == 5000

\* len(records) of a call: nothing, one row, a full batch, a full batch and
\* one row, two batches and one row
RecordCounts == {0, 1, BATCH_SIZE - 1, BATCH_SIZE, BATCH_SIZE + 1,
                 2 * BATCH_SIZE, 2 * BATCH_SIZE + 1}

Min(a, b) == IF a < b THEN a ELSE b

\* conn.execute(sql, batch) that commits what it executed
ExecuteAutocommit(table_rows, tx_rows, batch_len) ==
    [table |-> table_rows + tx_rows + batch_len, tx |-> 0]

\* conn.execute(sql, batch): the batch joins the open transaction
Execute(table_rows, tx_rows, batch_len) ==
    [table |-> table_rows, tx |-> tx_rows + batch_len]

BulkInit ==
    /\ bpc = "idle"
    /\ bcalls = 0
    /\ blen = 0
    /\ bi = 0
    /\ btx = 0
    /\ bcommits = 0
    /\ btable = EmptyFn

\* bulk_insert(table_name, records, columns) is entered; with no records it
\* returns at once
BulkCall(n) ==
    /\ bpc \in {"idle", "returned", "raised"}
    /\ bcalls < MaxCalls
    /\ bcalls' = bcalls + 1
    /\ blen' = n
    /\ bi' = 0
    /\ btx' = 0
    /\ bcommits' = 0
    /\ btable' = [c \in 1..(bcalls + 1) |-> IF c <= bcalls THEN btable[c] ELSE 0]
    /\ bpc' = IF n = 0 THEN "returned" ELSE "batches"
    /\ UNCHANGED bulkOthers

\* one iteration of the batch loop
BulkExecuteBatch ==
    /\ bpc = "batches"
    /\ bi < blen
    /\ LET batch_len == Min(BATCH_SIZE, blen - bi)
           r == Execute(btable[bcalls], btx, batch_len)
       IN /\ btable' = [btable EXCEPT ![bcalls] = r.table]
          /\ btx' = r.tx
    /\ bi' = bi + BATCH_SIZE
    /\ UNCHANGED <<bpc, bcalls, blen, bcommits>>
    /\ UNCHANGED bulkOthers

\* conn.execute raises: the with block closes the connection, which rolls
\* the open transaction back, and the exception leaves bulk_insert
BulkBatchFails ==
    /\ bpc = "batches"
    /\ bi < blen
    /\ btx' = 0
    /\ bpc' = "raised"
    /\ UNCHANGED <<bcalls, blen, bi, bcommits, btable>>
    /\ UNCHANGED bulkOthers

\* conn.commit() after the loop
BulkCommit ==
    /\ bpc = "batches"
    /\ bi >= blen
    /\ btable' = [btable EXCEPT ![bcalls] = @ + btx]
    /\ btx' = 0
    /\ bcommits' = bcommits + 1
    /\ bpc' = "returned"
    /\ UNCHANGED <<bcalls, blen, bi>>
    /\ UNCHANGED bulkOthers

\* conn.commit() raises: nothing of the call is persisted
BulkCommitFails ==
    /\ bpc = "batches"
    /\ bi >= blen
    /\ btx' = 0
    /\ bpc' = "raised"
    /\ UNCHANGED <<bcalls, blen, bi, bcommits, btable>>
    /\ UNCHANGED bulkOthers

BulkNext ==
    \/ \E n \in RecordCounts : BulkCall(n)
    \/ BulkExecuteBatch
    \/ BulkBatchFails
    \/ BulkCommit
    \/ BulkCommitFails

\* ------------------------------------------------------------------------
\* Binary floating point (IEEE 754 double precision), as far as
\* int(CUSTOMER_COUNT * PERSONAL_RATIO) needs it.  A natural number is a
\* sequence of 13-bit limbs, least significant first; a double is
\* [m |-> limbs, e |-> e] and stands for m * 2^(-e), with m < 2^53 + 1.
\* ------------------------------------------------------------------------
Limb == 2^13

\* a * m for a small m
RECURSIVE BigMulCarry(_, _, _)
BigMulCarry(a, m, carry) ==
    IF a = <<>>
    THEN IF carry = 0 THEN <<>> ELSE <<carry>>
    ELSE LET cur == Head(a) * m + carry
         IN <<cur % Limb>> \o BigMulCarry(Tail(a), m, cur \div Limb)

BigMulSmall(a, m) == BigMulCarry(a, m, 0)

\* quotient and remainder of a by a small d, the limbs above a left rem
RECURSIVE BigDivRem(_, _, _)
BigDivRem(a, d, rem) ==
    IF a = <<>>
    THEN [q |-> <<>>, r |-> rem]
    ELSE LET cur == rem * Limb + a[Len(a)]
             low == BigDivRem(SubSeq(a, 1, Len(a) - 1), d, cur % d)
         IN [q |-> low.q \o <<cur \div d>>, r |-> low.r]

BigDivSmall(a, d) == BigDivRem(a, d, 0)

BigAddOne(a) == BigMulCarry(a, 1, 1)

BigIsOdd(a) == a # <<>> /\ a[1] % 2 = 1

\* a < 2^53 (2^53 is limb 5 = 2, as 53 = 4 * 13 + 1)
BigBelowTwoTo53(a) ==
    /\ \A k \in DOMAIN a : k > 5 => a[k] = 0
    /\ Len(a) >= 5 => a[5] < 2

\* the value of a number below Limb^2
BigToInt(a) ==
    (IF Len(a) >= 1 THEN a[1] ELSE 0) + (IF Len(a) >= 2 THEN a[2] * Limb ELSE 0)

\* q + 1 or q: round to nearest, ties to even, for remainder r of divisor d
RoundNearestEven(q, r, d) ==
    IF 2 * r > d \/ (2 * r = d /\ BigIsOdd(q)) THEN BigAddOne(q) ELSE q

\* the least k with n * 2^k >= bound
RECURSIVE ShiftUpTo(_, _)
ShiftUpTo(n, bound) == IF n >= bound THEN 0 ELSE 1 + ShiftUpTo(2 * n, bound)

\* the double nearest to pct / 100 (the literal 0.pct of the configuration)
FloatOfPercent(pct) ==
    IF pct = 0 THEN [m |-> <<>>, e |-> 0]
    ELSE LET k == ShiftUpTo(pct, 100)
             n == <<0, 0, 0, 0, pct * 2^k>>
             d == BigDivSmall(n, 100)
         IN [m |-> RoundNearestEven(d.q, d.r, 100), e |-> 52 + k]

\* the least s with a \div 2^s < 2^53
RECURSIVE ExcessBits(_)
ExcessBits(a) ==
    IF BigBelowTwoTo53(a) THEN 0 ELSE 1 + ExcessBits(BigDivSmall(a, 2).q)

\* n * f for an int n: the exact product rounded to 53 bits
FloatMulInt(n, f) ==
    LET p == BigMulSmall(f.m, n)
        s == ExcessBits(p)
        d == BigDivSmall(p, 2^s)
    IN [m |-> RoundNearestEven(d.q, d.r, 2^s), e |-> f.e - s]

\* a \div 2^n
RECURSIVE BigShiftRight(_, _)
BigShiftRight(a, n) ==
    IF a = <<>> \/ n = 0 THEN a
    ELSE IF n >= 13 THEN BigShiftRight(Tail(a), n - 13)
    ELSE BigDivSmall(a, 2^n).q

\* int(f): the integer part of a double that is not negative
IntOfFloat(f) == BigToInt(BigShiftRight(f.m, f.e))

\* n_personal = int(CUSTOMER_COUNT * PERSONAL_RATIO)
n_personal(customer_count, ratio_pct) ==
    IntOfFloat(FloatMulInt(customer_count, FloatOfPercent(ratio_pct)))

\* ------------------------------------------------------------------------
\* Accounts part (generate_accounts.py).  The Customers stage has persisted
\* CUSTOMER_COUNT customers, the personal ones first, and registered them.
\* ------------------------------------------------------------------------
PersonalIds == [i \in 1..anp |-> i]

BusinessIds == [i \in 1..(CUSTOMER_COUNT - anp) |-> anp + i]

\* customer_id of the rows of core_banking.customers
CustomerIds == 1..CUSTOMER_COUNT

Account(cid, category, status) ==
    [customer_id |-> cid, category |-> category, status |-> status, orphan |-> 0]

\* the first two of MERIDIAN_SORT_CODES
MERIDIAN_SORT_CODES == <<"200100", "200101">>

\* the streams of draws a seed may give: "fresh" never repeats a pair;
\* "mixed" draws every account number three times, twice under the first
\* sort code and then under the second
DrawStreams == {"fresh", "mixed"}

\* generate_sort_code: the sort code of the pos-th draw
generate_sort_code(stream, pos) ==
    IF stream = "mixed" /\ pos % 3 = 0 THEN MERIDIAN_SORT_CODES[2]
    ELSE MERIDIAN_SORT_CODES[1]

\* generate_account_number: the 8-digit number of the pos-th draw
generate_account_number(stream, pos) ==
    IF stream = "fresh" THEN 10000000 + pos
    ELSE 10000000 + ((pos + 2) \div 3)

\* key = f"{an}-{sc}"
AccountKey(an, sc) == <<an, sc>>

\* a make_unique_account that returns its first draw
make_unique_accountFirstDraw(stream, used, pos) ==
    LET sc == generate_sort_code(stream, pos + 1)
        an == generate_account_number(stream, pos + 1)
    IN [an |-> an, sc |-> sc, used |-> used \cup {AccountKey(an, sc)},
        pos |-> pos + 1]

\* make_unique_account: draw until the key is not in used_account_numbers
RECURSIVE make_unique_account(_, _, _)
make_unique_account(stream, used, pos) ==
    LET sc == generate_sort_code(stream, pos + 1)
        an == generate_account_number(stream, pos + 1)
        key == AccountKey(an, sc)
    IN IF key \notin used
       THEN [an |-> an, sc |-> sc, used |-> used \cup {key}, pos |-> pos + 1]
       ELSE make_unique_account(stream, used, pos + 1)

\* the records of one loop iteration, each with the pair make_unique_account
\* returned for it, and the set and stream position left behind
RECURSIVE Numbered(_, _, _, _)
Numbered(stream, used, pos, recs) ==
    IF recs = <<>> THEN [recs |-> <<>>, used |-> used, pos |-> pos]
    ELSE LET u == make_unique_account(stream, used, pos)
             rest == Numbered(stream, u.used, u.pos, Tail(recs))
             head == [customer_id |-> Head(recs).customer_id,
                      category |-> Head(recs).category,
                      status |-> Head(recs).status,
                      orphan |-> Head(recs).orphan,
                      account_number |-> u.an, sort_code |-> u.sc]
         IN [recs |-> <<head>> \o rest.recs, used |-> rest.used, pos |-> rest.pos]

\* customer id of the i-th orphan when it is taken next to the largest id
FakeCidNoGap(max_customer_id, i) == max_customer_id - i

\* fake_cid of the i-th orphaned account
FakeCid(max_customer_id, i) == max_customer_id + 1000 + i

Orphan(max_customer_id, i) ==
    [customer_id |-> FakeCid(max_customer_id, i), category |-> "current_account",
     status |-> "active", orphan |-> i + 1]

SeqMax(q) == CHOOSE m \in Range(q) : \A x \in Range(q) : x <= m

AccInit ==
    /\ anp \in 0..CUSTOMER_COUNT
    /\ apc = IF anp > 0 THEN "personal" ELSE "business"
    /\ ai = 1
    /\ arecords = <<>>
    /\ afk = "valid"
    /\ atable = <<>>
    /\ areg = register(register(EmptyFn, "personal_customer_ids", PersonalIds),
                        "business_customer_ids", BusinessIds)
    /\ adraw \in DrawStreams
    /\ apos = 0
    /\ used_account_numbers = {}

\* the accounts one personal customer may get
PersonalChoices(cid) ==
    { <<Account(cid, "current_account", st)>> \o sv \o ln \o cc :
        st \in {"active", "dormant", "closed"},
        sv \in {<<>>, <<Account(cid, "savings", "active")>>},
        ln \in {<<>>} \cup
               { <<Account(cid, cat, ls)>> :
                    cat \in {"personal_loan", "mortgage"},
                    ls \in {"active", "in_arrears", "default"} },
        cc \in {<<>>, <<Account(cid, "credit_card", "active")>>} }

\* the accounts one business customer may get
BusinessChoices(cid) ==
    { <<Account(cid, "business_current", "active")>> \o sv \o ln :
        sv \in {<<>>, <<Account(cid, "business_savings", "active")>>},
        ln \in {<<>>} \cup
               { <<Account(cid, "business_loan", ls)>> :
                    ls \in {"active", "in_arrears"} } }

\* one iteration of the loop over personal_ids
AccPersonal ==
    /\ apc = "personal"
    /\ LET ids == get_ids(areg, "personal_customer_ids").ids
       IN /\ ai <= Len(ids)
          /\ \E recs \in PersonalChoices(ids[ai]) :
                LET n == Numbered(adraw, used_account_numbers, apos, recs)
                IN /\ arecords' = arecords \o n.recs
                   /\ used_account_numbers' = n.used
                   /\ apos' = n.pos
          /\ IF ai < Len(ids)
             THEN ai' = ai + 1 /\ apc' = apc
             ELSE ai' = 1 /\ apc' = IF anp < CUSTOMER_COUNT THEN "business"
                                     ELSE "orphans"
    /\ UNCHANGED <<anp, afk, atable, areg, adraw>>
    /\ UNCHANGED accOthers

\* one iteration of the loop over business_ids
AccBusiness ==
    /\ apc = "business"
    /\ LET ids == get_ids(areg, "business_customer_ids").ids
       IN /\ ai <= Len(ids)
          /\ \E recs \in BusinessChoices(ids[ai]) :
                LET n == Numbered(adraw, used_account_numbers, apos, recs)
                IN /\ arecords' = arecords \o n.recs
                   /\ used_account_numbers' = n.used
                   /\ apos' = n.pos
          /\ IF ai < Len(ids)
             THEN ai' = ai + 1 /\ apc' = apc
             ELSE ai' = 1 /\ apc' = "orphans"
    /\ UNCHANGED <<anp, afk, atable, areg, adraw>>
    /\ UNCHANGED accOthers

\* the orphaned accounts are appended after the largest customer id is taken
AccOrphans ==
    /\ apc = "orphans"
    /\ Len(PersonalIds) > 0
    /\ Len(BusinessIds) > 0
    /\ LET p == SeqMax(get_ids(areg, "personal_customer_ids").ids)
           b == SeqMax(get_ids(areg, "business_customer_ids").ids)
           max_customer_id == IF p > b THEN p ELSE b
           n == Numbered(adraw, used_account_numbers, apos,
                         [k \in 1..ORPHANED_ACCOUNTS |-> Orphan(max_customer_id, k - 1)])
       IN /\ arecords' = arecords \o n.recs
          /\ used_account_numbers' = n.used
          /\ apos' = n.pos
    /\ apc' = "dropfk"
    /\ UNCHANGED <<anp, ai, afk, atable, areg, adraw>>
    /\ UNCHANGED accOthers

\* .max() of an empty id array raises: the stage fails before it inserts
AccMaxOfEmpty ==
    /\ apc = "orphans"
    /\ (Len(PersonalIds) = 0 \/ Len(BusinessIds) = 0)
    /\ apc' = "failed"
    /\ UNCHANGED <<anp, ai, arecords, afk, atable, areg, adraw, apos, used_account_numbers>>
    /\ UNCHANGED accOthers

\* ALTER TABLE ... DROP CONSTRAINT IF EXISTS accounts_customer_id_fkey
AccDropFk ==
    /\ apc = "dropfk"
    /\ afk' = "dropped"
    /\ apc' = "insert"
    /\ UNCHANGED <<anp, ai, arecords, atable, areg, adraw, apos, used_account_numbers>>
    /\ UNCHANGED accOthers

\* a validated foreign key rejects a row whose customer does not exist
FkAccepts(fk, recs) ==
    fk = "valid" => \A k \in DOMAIN recs : recs[k].customer_id \in CustomerIds

\* bulk_insert('core_banking.accounts', records, cols) commits
AccInsert ==
    /\ apc = "insert"
    /\ FkAccepts(afk, arecords)
    /\ atable' = atable \o arecords
    /\ apc' = "addfk"
    /\ UNCHANGED <<anp, ai, arecords, afk, areg, adraw, apos, used_account_numbers>>
    /\ UNCHANGED accOthers

\* bulk_insert raises: the stage ends with nothing inserted
AccInsertFail ==
    /\ apc = "insert"
    /\ apc' = "failed"
    /\ UNCHANGED <<anp, ai, arecords, afk, atable, areg, adraw, apos, used_account_numbers>>
    /\ UNCHANGED accOthers

\* Python: a value that is not a string is in no list of strings
InStrings(value, is_string, strings) == is_string /\ value \in strings

\* all_ids, active_ids of the rows read back; the active filter tests
\* column r[1] of (account_id, customer_id, product_id, status)
all_ids(rows) == [k \in 1..Len(rows) |-> k]

active_ids(rows) ==
    LET Keep(k) == InStrings(rows[k].customer_id, FALSE, {"active", "in_arrears"})
        F[k \in 0..Len(rows)] ==
            IF k = 0 THEN <<>>
            ELSE IF Keep(k) THEN Append(F[k - 1], k) ELSE F[k - 1]
    IN F[Len(rows)]

account_customer_map(rows) == [k \in 1..Len(rows) |-> rows[k].customer_id]

\* the constraint is re-added NOT VALID, the rows are read back and registered
AccAddFkRegister ==
    /\ apc = "addfk"
    /\ afk' = "not_valid"
    /\ areg' = register(register(register(areg,
                    "account_ids", all_ids(atable)),
                    "active_account_ids", active_ids(atable)),
                    "account_customer_map", <<account_customer_map(atable)>>)
    /\ apc' = "done"
    /\ UNCHANGED <<anp, ai, arecords, atable, adraw, apos, used_account_numbers>>
    /\ UNCHANGED accOthers

AccNext ==
    \/ AccPersonal
    \/ AccBusiness
    \/ AccOrphans
    \/ AccMaxOfEmpty
    \/ AccDropFk
    \/ AccInsert
    \/ AccInsertFail
    \/ AccAddFkRegister

\* ------------------------------------------------------------------------
\* General Ledger part (generate_gl_entries.py).  Amounts are in pence.
\* ------------------------------------------------------------------------
\* amounts a journal can carry: the smallest one and the cap of 100000.00
GlAmounts == {1, 100000 * 100}

\* the batch id of a day; the configured imbalance batch id is either an id
\* of its own or the id of a day's batch
DayBatch(day_offset) == day_offset

OwnBatch == 0 - 1

\* a credit leg that lost a penny to rounding
CreditEntryRounded(journal, batch, amount) ==
    [journal_id |-> journal, batch_id |-> batch,
     debit_amount |-> 0, credit_amount |-> IF amount > 0 THEN amount - 1 ELSE 0]

DebitEntry(journal, batch, amount) ==
    [journal_id |-> journal, batch_id |-> batch,
     debit_amount |-> amount, credit_amount |-> 0]

CreditEntry(journal, batch, amount) ==
    [journal_id |-> journal, batch_id |-> batch,
     debit_amount |-> 0, credit_amount |-> amount]

\* the entries of one day: journal j of the day carries amounts[j]
RECURSIVE DayEntries(_, _, _)
DayEntries(counter, batch, amounts) ==
    IF amounts = <<>> THEN <<>>
    ELSE <<DebitEntry(counter + 1, batch, Head(amounts)),
           CreditEntry(counter + 1, batch, Head(amounts))>>
         \o DayEntries(counter + 1, batch, Tail(amounts))

\* the two entries of the intentional imbalance: 15000.00 against 14500.00
ImbalanceEntries(counter, batch) ==
    <<DebitEntry(counter + 1, batch, 1500000),
      CreditEntry(counter + 2, batch, 1450000)>>

GlInit ==
    /\ gpc = "days"
    /\ gimb \in {OwnBatch, DayBatch(0)}
    /\ gday = 0
    /\ gjournal = 0
    /\ grecords = <<>>
    /\ gtable = <<>>

\* one iteration of the day loop; the buffer is flushed when it is long enough
GlDay ==
    /\ gpc = "days"
    /\ gday < GlDays
    /\ \E n \in 1..MaxJournals : \E amounts \in [1..n -> GlAmounts] :
          LET recs == grecords \o DayEntries(gjournal, DayBatch(gday), amounts)
          IN /\ gjournal' = gjournal + n
             /\ IF Len(recs) >= GlFlushAt
                THEN gtable' = gtable \o recs /\ grecords' = <<>>
                ELSE gtable' = gtable /\ grecords' = recs
    /\ gday' = gday + 1
    /\ UNCHANGED <<gpc, gimb>>
    /\ UNCHANGED glOthers

\* the flush at the end of a day raises: what was buffered is lost, what
\* earlier flushes committed stays
GlDayInsertFail ==
    /\ gpc = "days"
    /\ gday < GlDays
    /\ \E n \in 1..MaxJournals : \E amounts \in [1..n -> GlAmounts] :
          LET recs == grecords \o DayEntries(gjournal, DayBatch(gday), amounts)
          IN /\ Len(recs) >= GlFlushAt
             /\ gjournal' = gjournal + n
             /\ grecords' = recs
    /\ gpc' = "failed"
    /\ UNCHANGED <<gimb, gday, gtable>>
    /\ UNCHANGED glOthers

\* after the day loop: the imbalanced pair is appended and the buffer inserted
GlImbalance ==
    /\ gpc = "days"
    /\ gday = GlDays
    /\ gtable' = gtable \o grecords \o ImbalanceEntries(gjournal, gimb)
    /\ grecords' = <<>>
    /\ gjournal' = gjournal + 2
    /\ gpc' = "done"
    /\ UNCHANGED <<gimb, gday>>
    /\ UNCHANGED glOthers

\* the last insert raises
GlImbalanceInsertFail ==
    /\ gpc = "days"
    /\ gday = GlDays
    /\ grecords' = grecords \o ImbalanceEntries(gjournal, gimb)
    /\ gjournal' = gjournal + 2
    /\ gpc' = "failed"
    /\ UNCHANGED <<gimb, gday, gtable>>
    /\ UNCHANGED glOthers

GlNext ==
    \/ GlDay
    \/ GlDayInsertFail
    \/ GlImbalance
    \/ GlImbalanceInsertFail

\* ------------------------------------------------------------------------
\* Warehouse part (generate_warehouse.py).  Dates are numbers yyyymmdd; a
\* batch id BATCH-<date>-001 is described by its date.
\* ------------------------------------------------------------------------
Repeat(r, n) == [i \in 1..n |-> r]

RECURSIVE Flatten(_)
Flatten(ss) == IF ss = <<>> THEN <<>> ELSE Head(ss) \o Flatten(Tail(ss))

\* rows a LEFT JOIN yields for one left row with k matches on the right
LeftJoin(k) == IF k = 0 THEN 1 ELSE k

WhCustomerIds == <<1, 2>>

\* the accounts of the source system: one of customer 1, one orphaned
WhAccounts ==
    <<[account_id |-> 1, customer_id |-> 1, product_id |-> 1, opened_date |-> 20240615],
      [account_id |-> 2, customer_id |-> FakeCid(2, 0), product_id |-> 2,
       opened_date |-> 20250110]>>

WhProducts ==
    <<[product_id |-> 1, product_code |-> "CUR-001"],
      [product_id |-> 2, product_code |-> "SAV-001"]>>

\* the source-system states: how many contacts, current credit scores and
\* risk assessments the first customer has (the second has none), and how
\* many transactions each account has
SourceStates ==
    [contacts : 0..MaxPerCustomer,
     scores : 0..MaxPerCustomer,
     assessments : 0..MaxPerCustomer,
     txns : [1..Len(WhAccounts) -> 0..MaxPerCustomer]]

OfFirst(k) == [c \in 1..Len(WhCustomerIds) |-> IF c = 1 THEN k ELSE 0]

PerCustomer(n) ==
    Flatten([c \in 1..Len(WhCustomerIds) |->
                Repeat([customer_id |-> WhCustomerIds[c], is_current |-> TRUE], n[c])])

\* the rows of a source table in source state src
SourceRows(src, table) ==
    CASE table = "core_banking.customers" -> PerCustomer([c \in 1..Len(WhCustomerIds) |-> 1])
      [] table = "core_banking.accounts" -> WhAccounts
      [] table = "core_banking.transactions" ->
            Flatten([a \in 1..Len(WhAccounts) |->
                        Repeat([account_id |-> WhAccounts[a].account_id], src.txns[a])])
      [] table = "core_banking.products" -> WhProducts
      [] table = "core_banking.addresses" ->
            <<[customer_id |-> 1, is_primary |-> TRUE, postcode |-> "M1", city |-> "Manchester"],
              [customer_id |-> 1, is_primary |-> FALSE, postcode |-> "M1", city |-> "Manchester"],
              [customer_id |-> 2, is_primary |-> TRUE, postcode |-> "", city |-> "Leeds"]>>
      [] table = "crm.contacts" -> PerCustomer(OfFirst(src.contacts))
      [] table = "crm.interactions" -> <<[customer_id |-> 1]>>
      [] table = "risk.credit_scores" -> PerCustomer(OfFirst(src.scores))
      [] table = "risk.aml_alerts" ->
            <<[customer_id |-> 1, alert_month |-> 202411],
              [customer_id |-> 1, alert_month |-> 202411],
              [customer_id |-> 2, alert_month |-> 202412]>>
      [] table = "risk.risk_assessments" -> PerCustomer(OfFirst(src.assessments))
      [] table = "gl.gl_entries" ->
            <<[entry_date |-> 20241115, account_code |-> "4210", account_type |-> "revenue"],
              [entry_date |-> 20241115, account_code |-> "2110", account_type |-> "liability"],
              [entry_date |-> 20241115, account_code |-> "4210", account_type |-> "revenue"],
              [entry_date |-> 20241116, account_code |-> "4210", account_type |-> "revenue"]>>

\* the staging tables in the order of the copies, each with its source table
staging_copies ==
    <<[table |-> "warehouse_staging.stg_customers", source |-> "core_banking.customers"],
      [table |-> "warehouse_staging.stg_accounts", source |-> "core_banking.accounts"],
      [table |-> "warehouse_staging.stg_transactions", source |-> "core_banking.transactions"],
      [table |-> "warehouse_staging.stg_contacts", source |-> "crm.contacts"],
      [table |-> "warehouse_staging.stg_interactions", source |-> "crm.interactions"],
      [table |-> "warehouse_staging.stg_credit_scores", source |-> "risk.credit_scores"],
      [table |-> "warehouse_staging.stg_aml_alerts", source |-> "risk.aml_alerts"],
      [table |-> "warehouse_staging.stg_risk_assessments", source |-> "risk.risk_assessments"],
      [table |-> "warehouse_staging.stg_gl_entries", source |-> "gl.gl_entries"]>>

StagingTables == {staging_copies[i].table : i \in DOMAIN staging_copies}

\* the stale list of populate_staging; STALE_TABLE_COUNT has no part in it
stale_tables ==
    {"warehouse_staging.stg_credit_scores",
     "warehouse_staging.stg_risk_assessments",
     "warehouse_staging.stg_aml_alerts"}

batch_id(cfg) == cfg.batch_date

stale_batch_id == 20241220

\* the date of the _ingested_at the stale tables are set to
StaleIngestedAt == 20241220

CoreTables ==
    {"warehouse_core.dim_product", "warehouse_core.dim_customer",
     "warehouse_core.dim_account", "warehouse_core.dim_geography",
     "warehouse_core.fact_transactions", "warehouse_core.fact_gl_entries",
     "warehouse_core.bridge_customer_account"}

ReportingTables ==
    {"warehouse_reporting.rpt_customer_360", "warehouse_reporting.rpt_daily_pnl",
     "warehouse_reporting.rpt_aml_summary",
     "warehouse_reporting.rpt_product_performance",
     "warehouse_reporting.rpt_liquidity_coverage",
     "warehouse_reporting.rpt_regulatory_capital",
     "warehouse_reporting.rpt_arrears_ageing"}

WarehouseTables == StagingTables \cup CoreTables \cup ReportingTables

EmptyWarehouse == [t \in WarehouseTables |-> <<>>]

RowCounts(tables) == [t \in CoreTables \cup ReportingTables |-> Len(tables[t])]

Tagged(rows, batch, now) ==
    [i \in DOMAIN rows |->
        rows[i] @@ [meta_batch_id |-> batch, meta_ingested_at |-> now]]

\* first transaction of populate_staging: every copy is inserted with the
\* batch id of its table
StagingLoaded(tables, src, cfg, now) ==
    [t \in DOMAIN tables |->
        IF t \in StagingTables
        THEN LET copy == CHOOSE i \in DOMAIN staging_copies : staging_copies[i].table = t
                 use_batch == IF t \in stale_tables THEN stale_batch_id ELSE batch_id(cfg)
             IN tables[t] \o Tagged(SourceRows(src, staging_copies[copy].source),
                                    use_batch, now)
        ELSE tables[t]]

\* second transaction: UPDATE t SET _ingested_at = '2024-12-20 02:00:00'
StaleMarked(tables) ==
    [t \in DOMAIN tables |->
        IF t \in stale_tables
        THEN [i \in DOMAIN tables[t] |->
                [tables[t][i] EXCEPT !.meta_ingested_at = StaleIngestedAt]]
        ELSE tables[t]]

WithKeys(rows, last) == [i \in DOMAIN rows |-> rows[i] @@ [key |-> last + i]]

\* SELECT ... FROM stg_customers sc LEFT JOIN primary addresses LEFT JOIN
\* stg_contacts LEFT JOIN current stg_credit_scores LEFT JOIN stg_risk_assessments
DimCustomerRows(tables, src) ==
    LET sc == tables["warehouse_staging.stg_customers"]
        Matches(q, cid) ==
            Len(SelectSeq(q, LAMBDA r : r.customer_id = cid /\ r.is_current))
        Primary(cid) ==
            Len(SelectSeq(SourceRows(src, "core_banking.addresses"),
                          LAMBDA r : r.customer_id = cid /\ r.is_primary))
    IN Flatten([i \in DOMAIN sc |->
            Repeat([customer_id |-> sc[i].customer_id, is_current |-> TRUE],
                   LeftJoin(Primary(sc[i].customer_id))
                   * LeftJoin(Matches(tables["warehouse_staging.stg_contacts"],
                                      sc[i].customer_id))
                   * LeftJoin(Matches(tables["warehouse_staging.stg_credit_scores"],
                                      sc[i].customer_id))
                   * LeftJoin(Matches(tables["warehouse_staging.stg_risk_assessments"],
                                      sc[i].customer_id)))])

\* SELECT ... FROM stg_accounts sa JOIN core_banking.products p
DimAccountRows(tables, src) ==
    LET sa == tables["warehouse_staging.stg_accounts"]
        Prods(pid) == SelectSeq(SourceRows(src, "core_banking.products"),
                                LAMBDA p : p.product_id = pid)
    IN Flatten([i \in DOMAIN sa |->
            [k \in DOMAIN Prods(sa[i].product_id) |->
                [account_id |-> sa[i].account_id, customer_id |-> sa[i].customer_id,
                 product_code |-> Prods(sa[i].product_id)[k].product_code,
                 opened_date |-> sa[i].opened_date, is_current |-> TRUE]]])

\* SELECT DISTINCT postcode_area, city ... WHERE postcode IS NOT NULL LIMIT 500
DimGeographyRows(src) ==
    LET addr == SourceRows(src, "core_banking.addresses")
        areas == {<<addr[i].postcode, addr[i].city>> :
                    i \in {j \in DOMAIN addr : addr[j].postcode # ""}}
        all == SeqOfSet(areas)
    IN SubSeq(all, 1, Min(Len(all), 500))

populate_core_dimensions ==
    /\ wpc = "core_dimensions"
    /\ LET prods == SourceRows(wsrc, "core_banking.products")
           custs == DimCustomerRows(wh, wsrc)
           accts == DimAccountRows(wh, wsrc)
       IN /\ wh' = [wh EXCEPT
                !["warehouse_core.dim_product"] = @ \o WithKeys(prods, wkeys.dim_product),
                !["warehouse_core.dim_customer"] = @ \o WithKeys(custs, wkeys.dim_customer),
                !["warehouse_core.dim_account"] = @ \o WithKeys(accts, wkeys.dim_account),
                !["warehouse_core.dim_geography"] = @ \o DimGeographyRows(wsrc)]
          /\ wkeys' = [dim_product |-> wkeys.dim_product + Len(prods),
                       dim_customer |-> wkeys.dim_customer + Len(custs),
                       dim_account |-> wkeys.dim_account + Len(accts)]
    /\ wpc' = "core_facts"
    /\ UNCHANGED <<wbuild, wsrc, wcfg, wnow, wfirst, wreport>>
    /\ UNCHANGED whOthers

\* the fact query with dim_customer joined by a LEFT JOIN: a transaction
\* whose account has no customer row gets a NULL customer_key (0 here)
FactTransactionRowsLeftJoin(tables) ==
    LET st == tables["warehouse_staging.stg_transactions"]
        da == tables["warehouse_core.dim_account"]
        dc == tables["warehouse_core.dim_customer"]
        Per(a) ==
            LET found == SelectSeq(dc, LAMBDA r : r.customer_id = da[a].customer_id
                                                  /\ r.is_current)
            IN IF found = <<>>
               THEN <<[customer_key |-> 0, account_key |-> da[a].key]>>
               ELSE [c \in DOMAIN found |->
                        [customer_key |-> found[c].key, account_key |-> da[a].key]]
    IN Flatten([i \in DOMAIN st |->
            Flatten([a \in DOMAIN da |->
                IF da[a].account_id = st[i].account_id /\ da[a].is_current
                THEN Per(a) ELSE <<>>])])

\* stg_transactions JOIN dim_account JOIN dim_customer LEFT JOIN dim_product
FactTransactionRows(tables) ==
    LET st == tables["warehouse_staging.stg_transactions"]
        da == tables["warehouse_core.dim_account"]
        dc == tables["warehouse_core.dim_customer"]
        dp == tables["warehouse_core.dim_product"]
        Per(a) ==
            Flatten([c \in DOMAIN dc |->
                IF dc[c].customer_id = da[a].customer_id /\ dc[c].is_current
                THEN Repeat([customer_key |-> dc[c].key, account_key |-> da[a].key],
                            LeftJoin(Len(SelectSeq(dp,
                                LAMBDA p : p.product_code = da[a].product_code))))
                ELSE <<>>])
    IN Flatten([i \in DOMAIN st |->
            Flatten([a \in DOMAIN da |->
                IF da[a].account_id = st[i].account_id /\ da[a].is_current
                THEN Per(a) ELSE <<>>])])

\* SELECT DISTINCT customer_key, account_key, ... FROM dim_account JOIN dim_customer
BridgeRows(tables) ==
    LET da == tables["warehouse_core.dim_account"]
        dc == tables["warehouse_core.dim_customer"]
    IN SeqOfSet({<<dc[c].key, da[a].key, da[a].opened_date>> :
                    <<a, c>> \in {<<x, y>> \in (DOMAIN da) \X (DOMAIN dc) :
                        /\ da[x].customer_id = dc[y].customer_id
                        /\ dc[y].is_current
                        /\ da[x].is_current}})

populate_core_facts ==
    /\ wpc = "core_facts"
    /\ wh' = [wh EXCEPT
          !["warehouse_core.fact_transactions"] = @ \o FactTransactionRows(wh),
          !["warehouse_core.fact_gl_entries"] = @ \o wh["warehouse_staging.stg_gl_entries"],
          !["warehouse_core.bridge_customer_account"] = @ \o BridgeRows(wh)]
    /\ wpc' = "reporting"
    /\ UNCHANGED <<wbuild, wsrc, wcfg, wnow, wkeys, wfirst, wreport>>
    /\ UNCHANGED whOthers

MonthStart(d) == (d \div 100) * 100 + 1

\* one row per current dim_customer row: every joined subquery is grouped by
\* the join column
Customer360Rows(tables) ==
    LET dc == SelectSeq(tables["warehouse_core.dim_customer"], LAMBDA r : r.is_current)
    IN [i \in DOMAIN dc |-> [customer_key |-> dc[i].key, customer_id |-> dc[i].customer_id]]

\* gl.gl_entries of revenue and expense accounts grouped by date and codes
DailyPnlRows(src) ==
    LET ge == SourceRows(src, "gl.gl_entries")
    IN SeqOfSet({<<ge[i].entry_date, ge[i].account_code>> :
                    i \in {j \in DOMAIN ge : ge[j].account_type \in {"revenue", "expense"}}})

\* risk.aml_alerts grouped by month
AmlSummaryRows(src) ==
    LET al == SourceRows(src, "risk.aml_alerts")
    IN SeqOfSet({al[i].alert_month : i \in DOMAIN al})

\* a product performance that counts only the accounts opened this month
ProductPerformanceRowsNewOnly(tables, now) ==
    LET da == SelectSeq(tables["warehouse_core.dim_account"],
                        LAMBDA r : r.is_current /\ r.opened_date >= MonthStart(now))
    IN SeqOfSet({[report_month |-> MonthStart(now), product_code |-> da[i].product_code,
                  new_accounts |-> Len(SelectSeq(da, LAMBDA r :
                        r.product_code = da[i].product_code))] : i \in DOMAIN da})

\* current dim_account rows grouped by product, dated with CURRENT_DATE
ProductPerformanceRows(tables, now) ==
    LET da == SelectSeq(tables["warehouse_core.dim_account"], LAMBDA r : r.is_current)
    IN SeqOfSet({[report_month |-> MonthStart(now), product_code |-> da[i].product_code,
                  new_accounts |-> Len(SelectSeq(da, LAMBDA r :
                        /\ r.product_code = da[i].product_code
                        /\ r.opened_date >= MonthStart(now)))] : i \in DOMAIN da})

\* one row per month 7..12
MonthlyRows == [k \in 1..6 |-> [report_date |-> 20240628 + 100 * k]]

\* one row per product category and ageing bucket
ArrearsRows ==
    Flatten([c \in 1..4 |-> [b \in 1..6 |-> [product_category |-> c, ageing_bucket |-> b]]])

populate_reporting ==
    /\ wpc = "reporting"
    /\ wh' = [wh EXCEPT
          !["warehouse_reporting.rpt_customer_360"] = @ \o Customer360Rows(wh),
          !["warehouse_reporting.rpt_daily_pnl"] = @ \o DailyPnlRows(wsrc),
          !["warehouse_reporting.rpt_aml_summary"] = @ \o AmlSummaryRows(wsrc),
          !["warehouse_reporting.rpt_product_performance"] =
                @ \o ProductPerformanceRows(wh, wnow),
          !["warehouse_reporting.rpt_liquidity_coverage"] = @ \o MonthlyRows,
          !["warehouse_reporting.rpt_regulatory_capital"] = @ \o MonthlyRows,
          !["warehouse_reporting.rpt_arrears_ageing"] = @ \o ArrearsRows]
    /\ wfirst' = IF wfirst.build = 0
                 THEN [build |-> wbuild, counts |-> RowCounts(wh')]
                 ELSE wfirst
    /\ wpc' = "done"
    /\ UNCHANGED <<wbuild, wsrc, wcfg, wnow, wkeys, wreport>>
    /\ UNCHANGED whOthers

populate_staging ==
    /\ wpc = "staging"
    /\ wh' = StaleMarked(StagingLoaded(wh, wsrc, wcfg, wnow))
    /\ wreport' = wcfg.stale_table_count
    /\ wpc' = "core_dimensions"
    /\ UNCHANGED <<wbuild, wsrc, wcfg, wnow, wkeys, wfirst>>
    /\ UNCHANGED whOthers

\* the UPDATE of the second transaction raises after the copies are committed
StagingUpdateFails ==
    /\ wpc = "staging"
    /\ wh' = StagingLoaded(wh, wsrc, wcfg, wnow)
    /\ wpc' = "failed"
    /\ UNCHANGED <<wbuild, wsrc, wcfg, wnow, wkeys, wfirst, wreport>>
    /\ UNCHANGED whOthers

\* a statement raises before the first commit of a phase
PhaseFails ==
    /\ wpc \in {"staging", "core_dimensions", "core_facts", "reporting"}
    /\ wpc' = "failed"
    /\ UNCHANGED <<wbuild, wsrc, wcfg, wnow, wh, wkeys, wfirst, wreport>>
    /\ UNCHANGED whOthers

\* the later days of the database clock
LaterDays(now) == {d \in {20250101, 20250215} : d >= now}

\* the operator truncates the warehouse tables (the key sequences restart or
\* not) and runs the stage again, on the same source state
TruncateAndRebuild ==
    /\ wpc \in {"done", "failed"}
    /\ wbuild < MaxBuilds
    /\ wh' = EmptyWarehouse
    /\ \E restart \in BOOLEAN :
          wkeys' = IF restart
                   THEN [dim_product |-> 0, dim_customer |-> 0, dim_account |-> 0]
                   ELSE wkeys
    /\ wnow' \in LaterDays(wnow)
    /\ wbuild' = wbuild + 1
    /\ wpc' = "staging"
    /\ UNCHANGED <<wsrc, wcfg, wfirst, wreport>>
    /\ UNCHANGED whOthers

WhInit ==
    /\ wpc = "staging"
    /\ wbuild = 1
    /\ wsrc \in SourceStates
    /\ wcfg \in [stale_table_count : {Cardinality(stale_tables) - 1, Cardinality(stale_tables)},
                 batch_date : {stale_batch_id, 20250101}]
    /\ wnow = 20250101
    /\ wh = EmptyWarehouse
    /\ wkeys = [dim_product |-> 0, dim_customer |-> 0, dim_account |-> 0]
    /\ wfirst = [build |-> 0, counts |-> RowCounts(EmptyWarehouse)]
    /\ wreport = 0 - 1

\* the warehouse part when it does not act
WhIdle ==
    /\ wsrc = [contacts |-> 0, scores |-> 0, assessments |-> 0,
               txns |-> [a \in 1..Len(WhAccounts) |-> 0]]
    /\ wcfg = [stale_table_count |-> Cardinality(stale_tables), batch_date |-> 20250101]

WhNext ==
    \/ populate_staging
    \/ StagingUpdateFails
    \/ populate_core_dimensions
    \/ populate_core_facts
    \/ populate_reporting
    \/ PhaseFails
    \/ TruncateAndRebuild

\* ------------------------------------------------------------------------
\* Transactions part (generate_transactions.py).  Amounts are in pence.
\* ------------------------------------------------------------------------
TXN_TYPE_WEIGHTS(product_cat) ==
    CASE product_cat = "current_account" ->
            {"direct_debit", "standing_order", "faster_payment", "card_payment",
             "atm_withdrawal", "salary", "transfer_out", "transfer_in", "bacs", "fee"}
      [] product_cat = "savings" ->
            {"transfer_in", "transfer_out", "interest", "faster_payment"}
      [] product_cat \in {"personal_loan", "business_loan"} ->
            {"loan_repayment", "interest", "fee"}
      [] product_cat = "mortgage" -> {"mortgage_payment", "interest", "fee"}
      [] product_cat = "credit_card" ->
            {"card_payment", "faster_payment", "interest", "fee", "transfer_in"}
      [] product_cat = "business_current" ->
            {"direct_debit", "faster_payment", "bacs", "chaps", "card_payment",
             "salary", "transfer_out", "transfer_in", "fee"}
      [] product_cat = "business_savings" -> {"transfer_in", "transfer_out", "interest"}
      [] OTHER ->
            {"direct_debit", "standing_order", "faster_payment", "card_payment",
             "atm_withdrawal", "salary", "transfer_out", "transfer_in", "bacs", "fee"}

\* what round(lognormal, 2) can give: 0.00, 4.00 (rounds to no ten), 25.00 (a
\* tie between two tens), 600.00 (above the ATM limit), and an amount above
\* the cap
AmountDraws == {0, 400, 2500, 60000, 50000001}

\* Python's round(p / d): to the nearest integer, a tie to the even one
RoundHalfEven(p, d) ==
    LET q == p \div d
        r == p % d
    IN IF 2 * r < d THEN q
       ELSE IF 2 * r > d THEN q + 1
       ELSE IF q % 2 = 0 THEN q ELSE q + 1

Max(a, b) == IF a > b THEN a ELSE b

\* an amount that is not capped
Uncapped(amount) == amount

\* amount = min(amount, 500000)
Capped(amount) == Min(amount, 50000000)

\* amount = round(amount / 10) * 10; amount = max(10, min(amount, 500))
AtmRounded(amount) == Max(1000, Min(RoundHalfEven(amount, 1000) * 1000, 50000))

\* a zero that is forced whenever the random test passes
ForcesZeroUncounted(zero_amount_inserted, coin) == coin

\* zero_amount_inserted < ZERO_AMOUNT_TXNS and rng.random() < 0.0001
ForcesZero(zero_amount_inserted, coin) ==
    zero_amount_inserted < ZERO_AMOUNT_TXNS /\ coin

is_credit(txn_type) == txn_type \in {"salary", "transfer_in", "interest"}

\* the amount of a record, from the lognormal draw to the sign
Amount(txn_type, draw, forced) ==
    LET capped == Capped(draw)
        atm == IF txn_type = "atm_withdrawal" THEN AtmRounded(capped) ELSE capped
        zeroed == IF forced THEN 0 ELSE atm
    IN IF is_credit(txn_type) THEN zeroed ELSE 0 - zeroed

\* a row of core_banking.accounts with the category of its product and the
\* type of its customer ("None" when the LEFT JOIN finds no customer)
AccountRow(status, category, customer_type) ==
    [status |-> status, category |-> category, customer_type |-> customer_type]

\* the draws of the stream of a run: the stream "any" draws every type,
\* amount and zero-forcing test; the stream "steady" draws one type per
\* category and the amount 25.00, and never passes the zero-forcing test
TypeDraws(stream, product_cat) ==
    IF stream = "steady"
    THEN {CHOOSE t \in TXN_TYPE_WEIGHTS(product_cat) : TRUE}
    ELSE TXN_TYPE_WEIGHTS(product_cat)

AmountDrawsOf(stream) == IF stream = "steady" THEN {2500} ELSE AmountDraws

CoinDraws(stream) == IF stream = "steady" THEN {FALSE} ELSE BOOLEAN

\* (r[0], r[1], r[2], r[3], r[4] or 'personal') for the row of account k
AccountTuple(rows, k) ==
    [account_id |-> k, status |-> rows[k].status, category |-> rows[k].category,
     cust_type |-> IF rows[k].customer_type = "None" THEN "personal"
                   ELSE rows[k].customer_type]

\* a query with no WHERE clause: the accounts of every status
AllAccounts(rows) == [k \in 1..Len(rows) |-> AccountTuple(rows, k)]

\* SELECT ... WHERE a.status IN ('active', 'in_arrears') ORDER BY a.account_id
ActiveAccounts(rows) ==
    LET F[k \in 0..Len(rows)] ==
            IF k = 0 THEN <<>>
            ELSE IF rows[k].status \in {"active", "in_arrears"}
                 THEN Append(F[k - 1], AccountTuple(rows, k))
                 ELSE F[k - 1]
    IN F[Len(rows)]

\* a buffer that keeps its records after they are inserted
BufferKept(records) == records

\* all_records = [] after _insert_txn_batch(all_records)
BufferAfterInsert(records) == <<>>

TxInit ==
    /\ tpc = "query"
    /\ taccounts = <<>>
    /\ tacct = 1
    /\ tn = 0
    /\ ti = 0
    /\ trecords = <<>>
    /\ ttable = <<>>
    /\ tzero = 0
    /\ treport = 0 - 1
    /\ ttotal = 0

\* the accounts are read
TxQuery ==
    /\ tpc = "query"
    /\ taccounts' = ActiveAccounts(tsrc)
    /\ tpc' = "account"
    /\ UNCHANGED <<tacct, tn, ti, trecords, ttable, tzero, treport, tsrc, trng,
                   ttotal>>
    /\ UNCHANGED txOthers

\* the head of the account loop: n_txns = max(1, poisson)
TxAccount ==
    /\ tpc = "account"
    /\ tacct <= Len(taccounts)
    /\ tn' \in 1..MaxTxns
    /\ ti' = 0
    /\ tpc' = "rows"
    /\ UNCHANGED <<taccounts, tacct, trecords, ttable, tzero, treport, tsrc, trng,
                   ttotal>>
    /\ UNCHANGED txOthers

\* one iteration of the inner loop; after the last one the buffer is
\* inserted when it is long enough
TxRow ==
    /\ tpc = "rows"
    /\ ti < tn
    /\ \E txn_type \in TypeDraws(trng, taccounts[tacct].category) :
       \E draw \in AmountDrawsOf(trng) :
       \E coin \in CoinDraws(trng) :
          LET forced == ForcesZero(tzero, coin)
              rec == [account_id |-> taccounts[tacct].account_id, seq |-> ti,
                      txn_type |-> txn_type,
                      amount |-> Amount(txn_type, draw, forced), forced |-> forced]
              recs == Append(trecords, rec)
              last == ti + 1 = tn
          IN /\ tzero' = IF forced THEN tzero + 1 ELSE tzero
             /\ IF last /\ Len(recs) >= TxnFlushAt
                THEN ttable' = ttable \o recs /\ trecords' = BufferAfterInsert(recs)
                ELSE ttable' = ttable /\ trecords' = recs
             /\ IF last
                THEN tacct' = tacct + 1 /\ tpc' = "account"
                ELSE tacct' = tacct /\ tpc' = "rows"
    /\ ti' = ti + 1
    /\ ttotal' = ttotal + 1
    /\ UNCHANGED <<taccounts, tn, treport, tsrc, trng>>
    /\ UNCHANGED txOthers

\* _insert_txn_batch raises: the buffer is lost and the stage ends
TxInsertFail ==
    /\ \/ tpc = "account" /\ tacct > Len(taccounts) /\ trecords # <<>>
       \/ tpc = "rows" /\ ti + 1 = tn /\ Len(trecords) + 1 >= TxnFlushAt
    /\ tpc' = "failed"
    /\ UNCHANGED <<taccounts, tacct, tn, ti, trecords, ttable, tzero, treport,
                   tsrc, trng, ttotal>>
    /\ UNCHANGED txOthers

\* after the loop: the remaining records are inserted and the counts printed
TxFinish ==
    /\ tpc = "account"
    /\ tacct > Len(taccounts)
    /\ ttable' = ttable \o trecords
    /\ trecords' = <<>>
    /\ treport' = tzero
    /\ tpc' = "done"
    /\ UNCHANGED <<taccounts, tacct, tn, ti, tzero, tsrc, trng, ttotal>>
    /\ UNCHANGED txOthers

TxNext ==
    \/ TxQuery
    \/ TxAccount
    \/ TxRow
    \/ TxInsertFail
    \/ TxFinish

\* ------------------------------------------------------------------------
\* Customers part (generate_customers.py): run() calls generate_customers
\* and then generate_addresses.  A field that is None holds the string None.
\* ------------------------------------------------------------------------
None == "None"

\* n_business = CUSTOMER_COUNT - n_personal
n_business(customer_count, ratio_pct) ==
    customer_count - n_personal(customer_count, ratio_pct)

\* the record the i-th iteration of the personal loop appends
PersonalRecord(i, is_active) ==
    [customer_ref |-> 10000001 + i, type |-> "personal",
     title |-> "Ms", first_name |-> "first", last_name |-> "last",
     date_of_birth |-> "1990-01-01", gender |-> "female",
     nationality |-> "British", ni_number |-> "AB123456C",
     company_name |-> None, company_reg_number |-> None, sic_code |-> None,
     is_active |-> is_active]

\* a business record that keeps a nationality
BusinessRecordWithNationality(np, i, is_active) ==
    [customer_ref |-> 10000001 + np + i, type |-> "business",
     title |-> None, first_name |-> None, last_name |-> None,
     date_of_birth |-> None, gender |-> None,
     nationality |-> "British", ni_number |-> None,
     company_name |-> "company", company_reg_number |-> "01234567",
     sic_code |-> "62020", is_active |-> is_active]

\* the record the i-th iteration of the business loop appends
BusinessRecord(np, i, is_active) ==
    [customer_ref |-> 10000001 + np + i, type |-> "business",
     title |-> None, first_name |-> None, last_name |-> None,
     date_of_birth |-> None, gender |-> None,
     nationality |-> None, ni_number |-> None,
     company_name |-> "company", company_reg_number |-> "01234567",
     sic_code |-> "62020", is_active |-> is_active]

\* the ids of the rows read back that pass a test, in customer_id order
IdsWhere(rows, keep) ==
    LET F[k \in 0..Len(rows)] ==
            IF k = 0 THEN <<>>
            ELSE IF keep[k] THEN Append(F[k - 1], k) ELSE F[k - 1]
    IN F[Len(rows)]

\* set(rng.choice(ids, size, replace=True)): up to size customers
SampleWithReplacement(ids, size) ==
    {S \in SUBSET Range(ids) :
        Cardinality(S) <= size /\ (size > 0 => Cardinality(S) > 0)}

\* set(rng.choice(ids, size, replace=False)): size different customers
SampleWithoutReplacement(ids, size) ==
    {S \in SUBSET Range(ids) : Cardinality(S) = size}

\* the primary address of a customer
PrimaryAddress(cid, missing) ==
    [customer_id |-> cid, address_type |-> "home",
     postcode |-> IF cid \in missing THEN None ELSE "AB1 2CD",
     is_primary |-> TRUE]

\* {**addr, 'address_type': 'correspondence', ..., 'postcode': fake.postcode()}
CorrespondenceAddress(addr) ==
    [addr EXCEPT !.address_type = "correspondence", !.postcode = "EF3 4GH",
                 !.is_primary = FALSE]

CustInit ==
    /\ cpc = "split"
    /\ csplit = [n_personal |-> 0, n_business |-> 0]
    /\ ci = 0
    /\ crecords = <<>>
    /\ ctable = <<>>
    /\ creg = EmptyFn
    /\ cmissing = {}
    /\ caddresses = <<>>

\* n_personal and n_business are computed; the loops that have no
\* iteration are passed over
CustSplit ==
    /\ cpc = "split"
    /\ LET np == n_personal(ccfg.customer_count, ccfg.personal_ratio_pct)
           nb == n_business(ccfg.customer_count, ccfg.personal_ratio_pct)
       IN /\ csplit' = [n_personal |-> np, n_business |-> nb]
          /\ cpc' = IF np > 0 THEN "personal"
                    ELSE IF nb > 0 THEN "business" ELSE "insert"
    /\ ci' = 0
    /\ UNCHANGED <<ccfg, crecords, ctable, creg, cmissing, caddresses>>
    /\ UNCHANGED custOthers

\* one iteration of for i in range(n_personal)
CustPersonal ==
    /\ cpc = "personal"
    /\ \E is_active \in BOOLEAN :
          crecords' = Append(crecords, PersonalRecord(ci, is_active))
    /\ IF ci + 1 < csplit.n_personal
       THEN ci' = ci + 1 /\ cpc' = cpc
       ELSE ci' = 0 /\ cpc' = IF csplit.n_business > 0 THEN "business"
                               ELSE "insert"
    /\ UNCHANGED <<ccfg, csplit, ctable, creg, cmissing, caddresses>>
    /\ UNCHANGED custOthers

\* one iteration of for i in range(n_business)
CustBusiness ==
    /\ cpc = "business"
    /\ \E is_active \in BOOLEAN :
          crecords' = Append(crecords,
                             BusinessRecord(csplit.n_personal, ci, is_active))
    /\ IF ci + 1 < csplit.n_business
       THEN ci' = ci + 1 /\ cpc' = cpc
       ELSE ci' = 0 /\ cpc' = "insert"
    /\ UNCHANGED <<ccfg, csplit, ctable, creg, cmissing, caddresses>>
    /\ UNCHANGED custOthers

\* bulk_insert('core_banking.customers', records, cols) commits
CustInsert ==
    /\ cpc = "insert"
    /\ crecords # <<>>
    /\ ctable' = ctable \o crecords
    /\ cpc' = "register"
    /\ UNCHANGED <<ccfg, csplit, ci, crecords, creg, cmissing, caddresses>>
    /\ UNCHANGED custOthers

\* bulk_insert raises: run() ends with no customer inserted
CustInsertFail ==
    /\ cpc = "insert"
    /\ cpc' = "failed"
    /\ UNCHANGED <<ccfg, csplit, ci, crecords, ctable, creg, cmissing, caddresses>>
    /\ UNCHANGED custOthers

\* the rows are read back in customer_id order and the four lists registered;
\* generate_customers returns and generate_addresses starts
CustRegister ==
    /\ cpc = "register"
    /\ LET IsPersonal == [k \in DOMAIN ctable |-> ctable[k].type = "personal"]
           IsBusiness == [k \in DOMAIN ctable |-> ctable[k].type = "business"]
           IsActive == [k \in DOMAIN ctable |-> ctable[k].is_active]
       IN creg' = register(register(register(register(creg,
                     "customer_ids", all_ids(ctable)),
                     "personal_customer_ids", IdsWhere(ctable, IsPersonal)),
                     "business_customer_ids", IdsWhere(ctable, IsBusiness)),
                     "active_customer_ids", IdsWhere(ctable, IsActive))
    /\ crecords' = <<>>
    /\ cpc' = "choose"
    /\ UNCHANGED <<ccfg, csplit, ci, ctable, cmissing, caddresses>>
    /\ UNCHANGED custOthers

\* missing_postcode_customers is drawn from the registered customer ids
AddrChoose ==
    /\ cpc = "choose"
    /\ LET customer_ids == get_ids(creg, "customer_ids").ids
       IN /\ ccfg.missing_postcode_count <= Len(customer_ids)
          /\ cmissing' \in SampleWithoutReplacement(customer_ids,
                                                    ccfg.missing_postcode_count)
    /\ ci' = 1
    /\ cpc' = "addresses"
    /\ UNCHANGED <<ccfg, csplit, crecords, ctable, creg, caddresses>>
    /\ UNCHANGED custOthers

\* rng.choice raises ValueError when more customers are asked for than
\* there are: run() ends with no address inserted
AddrChooseFails ==
    /\ cpc = "choose"
    /\ ccfg.missing_postcode_count > Len(get_ids(creg, "customer_ids").ids)
    /\ cpc' = "failed"
    /\ UNCHANGED <<ccfg, csplit, ci, crecords, ctable, creg, cmissing, caddresses>>
    /\ UNCHANGED custOthers

\* one iteration of for cid in customer_ids: the primary address and, for
\* some customers, a correspondence address
AddrCustomer ==
    /\ cpc = "addresses"
    /\ LET customer_ids == get_ids(creg, "customer_ids").ids
           addr == PrimaryAddress(customer_ids[ci], cmissing)
       IN /\ ci <= Len(customer_ids)
          /\ \E second \in BOOLEAN :
                crecords' = crecords \o <<addr>> \o
                    (IF second THEN <<CorrespondenceAddress(addr)>> ELSE <<>>)
          /\ IF ci < Len(customer_ids)
             THEN ci' = ci + 1 /\ cpc' = cpc
             ELSE ci' = 0 /\ cpc' = "addr_insert"
    /\ UNCHANGED <<ccfg, csplit, ctable, creg, cmissing, caddresses>>
    /\ UNCHANGED custOthers

\* bulk_insert('core_banking.addresses', records, cols) commits
AddrInsert ==
    /\ cpc = "addr_insert"
    /\ caddresses' = caddresses \o crecords
    /\ cpc' = "done"
    /\ UNCHANGED <<ccfg, csplit, ci, crecords, ctable, creg, cmissing>>
    /\ UNCHANGED custOthers

\* bulk_insert raises: run() ends with no address inserted
AddrInsertFail ==
    /\ cpc = "addr_insert"
    /\ cpc' = "failed"
    /\ UNCHANGED <<ccfg, csplit, ci, crecords, ctable, creg, cmissing, caddresses>>
    /\ UNCHANGED custOthers

CustNext ==
    \/ CustSplit
    \/ CustPersonal
    \/ CustBusiness
    \/ CustInsert
    \/ CustInsertFail
    \/ CustRegister
    \/ AddrChoose
    \/ AddrChooseFails
    \/ AddrCustomer
    \/ AddrInsert
    \/ AddrInsertFail

\* the configurations of the part: a positive customer_count, a
\* personal_ratio written with two decimals, a missing_postcode_count
CustConfigs(counts, ratio_pcts, missing) ==
    [customer_count : counts, personal_ratio_pct : ratio_pcts,
     missing_postcode_count : missing]

\* the ratios the part is run with from end to end
RatioChoices == {0, 50, 85, 100}

\* ------------------------------------------------------------------------
\* The references between the source tables in a full run: the generator
\* functions that fill customers, addresses, accounts, credit scores, AML
\* alerts, transactions, CRM contacts and CRM interactions, each row with
\* the columns that refer to another table.  The id of a row is its position.
\* ------------------------------------------------------------------------
\* n_alerts = int(CUSTOMER_COUNT * AML_FLAG_RATIO * 5)
AlertsPerFlagged == 5

EmptyTables ==
    [t \in {"core_banking.customers", "core_banking.addresses",
            "core_banking.accounts", "risk.credit_scores", "risk.aml_alerts",
            "core_banking.transactions", "crm.contacts", "crm.interactions"}
        |-> <<>>]

\* the ids of a set in ascending order
RECURSIVE Ascending(_)
Ascending(S) ==
    IF S = {} THEN <<>>
    ELSE LET least == CHOOSE x \in S : \A y \in S : x <= y
         IN <<least>> \o Ascending(S \ {least})

\* SELECT customer_id FROM core_banking.accounts: the customers the
\* accounts name
ContactCustomerIdsOfAccounts(tables) ==
    [k \in DOMAIN tables["core_banking.accounts"] |->
        tables["core_banking.accounts"][k].customer_id]

\* SELECT customer_id, ... FROM core_banking.customers ORDER BY customer_id
ContactCustomerIds(tables) ==
    [k \in DOMAIN tables["core_banking.customers"] |-> k]

\* the customer one account row is joined with (LEFT JOIN customers)
CustomerTypeOf(tables, customer_id) ==
    IF customer_id \in DOMAIN tables["core_banking.customers"]
    THEN tables["core_banking.customers"][customer_id].type
    ELSE None

RefInit ==
    /\ fpc = "customers"
    /\ ftab = EmptyTables
    /\ freg = [k \in {} |-> <<>>]
    /\ fcfg \in [n_personal : 1..(CUSTOMER_COUNT - 1),
                 active : [1..CUSTOMER_COUNT -> BOOLEAN],
                 n_flagged : 0..MaxFlagged,
                 extra_alerts : 0..MaxExtraAlerts]

\* generate_customers: personal customers, then business customers
RefCustomers ==
    /\ fpc = "customers"
    /\ LET rows == [k \in 1..CUSTOMER_COUNT |->
                      [type |-> IF k <= fcfg.n_personal THEN "personal"
                                ELSE "business",
                       is_active |-> fcfg.active[k]]]
           table == ftab["core_banking.customers"] \o rows
           IsPersonal == [k \in DOMAIN table |-> table[k].type = "personal"]
           IsBusiness == [k \in DOMAIN table |-> table[k].type = "business"]
           IsActive == [k \in DOMAIN table |-> table[k].is_active]
       IN /\ ftab' = [ftab EXCEPT !["core_banking.customers"] = table]
          /\ freg' = register(register(register(register(freg,
                        "customer_ids", all_ids(table)),
                        "personal_customer_ids", IdsWhere(table, IsPersonal)),
                        "business_customer_ids", IdsWhere(table, IsBusiness)),
                        "active_customer_ids", IdsWhere(table, IsActive))
    /\ fpc' = "addresses"
    /\ UNCHANGED fcfg
    /\ UNCHANGED refOthers

\* generate_addresses: a primary address for every registered customer id
RefAddresses ==
    /\ fpc = "addresses"
    /\ LET customer_ids == get_ids(freg, "customer_ids").ids
       IN ftab' = [ftab EXCEPT !["core_banking.addresses"] =
                      @ \o [k \in DOMAIN customer_ids |->
                               [customer_id |-> customer_ids[k]]]]
    /\ fpc' = "accounts"
    /\ UNCHANGED <<fcfg, freg>>
    /\ UNCHANGED refOthers

\* generate_accounts: an account of some status for every personal and every
\* business customer, then the orphaned accounts
RefAccounts ==
    /\ fpc = "accounts"
    /\ LET personal_ids == get_ids(freg, "personal_customer_ids").ids
           business_ids == get_ids(freg, "business_customer_ids").ids
           holders == personal_ids \o business_ids
           max_customer_id == IF SeqMax(personal_ids) > SeqMax(business_ids)
                              THEN SeqMax(personal_ids) ELSE SeqMax(business_ids)
       IN \E status \in [DOMAIN holders -> {"active", "closed"}] :
             LET records ==
                   [k \in DOMAIN holders |->
                       [customer_id |-> holders[k], status |-> status[k],
                        category |-> "current_account", orphan |-> 0]]
                   \o [k \in 1..ORPHANED_ACCOUNTS |-> Orphan(max_customer_id, k - 1)]
                 table == ftab["core_banking.accounts"] \o records
             IN /\ ftab' = [ftab EXCEPT !["core_banking.accounts"] = table]
                /\ freg' = register(register(freg,
                              "account_ids", all_ids(table)),
                              "active_account_ids", active_ids(table))
    /\ fpc' = "credit_scores"
    /\ UNCHANGED fcfg
    /\ UNCHANGED refOthers

\* generate_credit_scores: one score for every active customer
RefCreditScores ==
    /\ fpc = "credit_scores"
    /\ LET customer_ids == get_ids(freg, "active_customer_ids").ids
       IN ftab' = [ftab EXCEPT !["risk.credit_scores"] =
                      @ \o [k \in DOMAIN customer_ids |->
                               [customer_id |-> customer_ids[k]]]]
    /\ fpc' = "aml_alerts"
    /\ UNCHANGED <<fcfg, freg>>
    /\ UNCHANGED refOthers

\* the number of alerts of the configuration
n_alerts == AlertsPerFlagged * fcfg.n_flagged + fcfg.extra_alerts

\* generate_aml_alerts: the flagged customers are drawn from the active
\* ones without replacement; the i-th alert takes them in turn
RefAmlAlerts ==
    /\ fpc = "aml_alerts"
    /\ LET customer_ids == get_ids(freg, "active_customer_ids").ids
       IN /\ fcfg.n_flagged <= Len(customer_ids)
          /\ n_alerts > 0 => fcfg.n_flagged > 0
          /\ \E drawn \in SampleWithoutReplacement(customer_ids, fcfg.n_flagged) :
                LET flagged_customers == Ascending(drawn)
                IN ftab' = [ftab EXCEPT !["risk.aml_alerts"] =
                       @ \o [i \in 1..n_alerts |->
                               [customer_id |->
                                  flagged_customers[((i - 1) % fcfg.n_flagged) + 1]]]]
    /\ fpc' = "transactions"
    /\ UNCHANGED <<fcfg, freg>>
    /\ UNCHANGED refOthers

\* rng.choice raises ValueError: more flagged customers asked for than there
\* are active customers, or an alert to draw from no flagged customer
RefAmlAlertsFail ==
    /\ fpc = "aml_alerts"
    /\ \/ fcfg.n_flagged > Len(get_ids(freg, "active_customer_ids").ids)
       \/ n_alerts > 0 /\ fcfg.n_flagged = 0
    /\ fpc' = "failed"
    /\ UNCHANGED <<fcfg, freg, ftab>>
    /\ UNCHANGED refOthers

\* generate_transactions: a transaction for every account the query returns
RefTransactions ==
    /\ fpc = "transactions"
    /\ LET joined == [k \in DOMAIN ftab["core_banking.accounts"] |->
                        [status |-> ftab["core_banking.accounts"][k].status,
                         category |-> ftab["core_banking.accounts"][k].category,
                         customer_type |->
                            CustomerTypeOf(ftab,
                               ftab["core_banking.accounts"][k].customer_id)]]
           accounts == ActiveAccounts(joined)
       IN ftab' = [ftab EXCEPT !["core_banking.transactions"] =
                      @ \o [k \in DOMAIN accounts |->
                               [account_id |-> accounts[k].account_id]]]
    /\ fpc' = "contacts"
    /\ UNCHANGED <<fcfg, freg>>
    /\ UNCHANGED refOthers

\* generate_contacts: a contact for every row of the customers table
RefContacts ==
    /\ fpc = "contacts"
    /\ LET customers == ContactCustomerIds(ftab)
       IN ftab' = [ftab EXCEPT !["crm.contacts"] =
                      @ \o [k \in DOMAIN customers |-> [customer_id |-> customers[k]]]]
    /\ fpc' = "interactions"
    /\ UNCHANGED <<fcfg, freg>>
    /\ UNCHANGED refOthers

\* generate_interactions: n interactions for every row of crm.contacts
RefInteractions ==
    /\ fpc = "interactions"
    /\ LET contacts == ftab["crm.contacts"]
       IN \E n \in [DOMAIN contacts -> 0..MaxInteractions] :
             ftab' = [ftab EXCEPT !["crm.interactions"] =
                 @ \o Flatten([c \in DOMAIN contacts |->
                         [j \in 1..n[c] |->
                             [contact_id |-> c,
                              customer_id |-> contacts[c].customer_id]]])]
    /\ fpc' = "done"
    /\ UNCHANGED <<fcfg, freg>>
    /\ UNCHANGED refOthers

RefNext ==
    \/ RefCustomers
    \/ RefAddresses
    \/ RefAccounts
    \/ RefCreditScores
    \/ RefAmlAlerts
    \/ RefAmlAlertsFail
    \/ RefTransactions
    \/ RefContacts
    \/ RefInteractions

RefIdle ==
    fcfg = [n_personal |-> 1, active |-> [k \in 1..CUSTOMER_COUNT |-> TRUE],
            n_flagged |-> 0, extra_alerts |-> 0]

\* ------------------------------------------------------------------------
\* The query tools of the agent (src/agent/tools.py): dispatch_tool and the
\* three tools. A query is a sequence of characters.
\* ------------------------------------------------------------------------
LowerLetters ==
    <<"a", "b", "c", "d", "e", "f", "g", "h", "i", "j", "k", "l", "m",
      "n", "o", "p", "q", "r", "s", "t", "u", "v", "w", "x", "y", "z">>

UpperLetters ==
    <<"A", "B", "C", "D", "E", "F", "G", "H", "I", "J", "K", "L", "M",
      "N", "O", "P", "Q", "R", "S", "T", "U", "V", "W", "X", "Y", "Z">>

Whitespace == {" ", "\t"}

\* str.upper() on one character
upper_char(c) ==
    IF \E k \in DOMAIN LowerLetters : LowerLetters[k] = c
    THEN UpperLetters[CHOOSE k \in DOMAIN LowerLetters : LowerLetters[k] = c]
    ELSE c

upper(s) == [i \in DOMAIN s |-> upper_char(s[i])]

\* str.strip(): the text between the first and the last character that is
\* not whitespace
strip(s) ==
    LET inked == {i \in DOMAIN s : s[i] \notin Whitespace}
    IN IF inked = {} THEN <<>>
       ELSE SubSeq(s, CHOOSE i \in inked : \A j \in inked : i <= j,
                      CHOOSE i \in inked : \A j \in inked : i >= j)

startswith(s, prefix) ==
    Len(s) >= Len(prefix) /\ SubSeq(s, 1, Len(prefix)) = prefix

\* \w of a regular expression
IsWordChar(c) ==
    \/ c \in Range(LowerLetters) \cup Range(UpperLetters)
    \/ c \in {"0", "1", "2", "3", "4", "5", "6", "7", "8", "9", "_"}

\* \b between position i and position i + 1 of s (i in 0..Len(s))
WordBoundary(s, i) ==
    (i >= 1 /\ IsWordChar(s[i])) # (i < Len(s) /\ IsWordChar(s[i + 1]))

\* re.search(rf'\b{keyword}\b', s)
re_search_word(keyword, s) ==
    \E i \in 1..(Len(s) - Len(keyword) + 1) :
        /\ SubSeq(s, i, i + Len(keyword) - 1) = keyword
        /\ WordBoundary(s, i - 1)
        /\ WordBoundary(s, i + Len(keyword) - 1)

KwSelect == <<"S", "E", "L", "E", "C", "T">>
KwWith == <<"W", "I", "T", "H">>

dangerous ==
    << <<"I", "N", "S", "E", "R", "T">>,
       <<"U", "P", "D", "A", "T", "E">>,
       <<"D", "E", "L", "E", "T", "E">>,
       <<"D", "R", "O", "P">>,
       <<"A", "L", "T", "E", "R">>,
       <<"T", "R", "U", "N", "C", "A", "T", "E">>,
       <<"C", "R", "E", "A", "T", "E">> >>

\* the query as the safety check would see it without upper()
query_stripped(query) == strip(query)

\* query_upper = query.strip().upper()
query_upper(query) == upper(strip(query))

\* the safety check of execute_sql_query: the error it returns, in a
\* sequence that is empty when the query passes
safety_check(query) ==
    LET q == query_upper(query)
        hits == {k \in DOMAIN dangerous : re_search_word(dangerous[k], q)}
    IN IF ~startswith(q, KwSelect) /\ ~startswith(q, KwWith)
       THEN <<[error |-> "Only SELECT queries are permitted."]>>
       ELSE IF hits # {}
       THEN <<[error |-> "Query contains forbidden keyword",
               keyword |-> dangerous[CHOOSE k \in hits : \A j \in hits : k <= j]]>>
       ELSE <<>>

\* execute_sql_query(query): the value returned; env is what the database
\* does with a statement it is sent
execute_sql_query(query, env) ==
    IF safety_check(query) # <<>> THEN safety_check(query)[1]
    ELSE IF env = "fails" THEN [error |-> "str(e)"]
    ELSE [columns |-> <<>>, rows |-> <<>>, row_count |-> 0, truncated |-> FALSE]

\* the statements execute_sql_query passes to conn.execute
statements_sent(query) ==
    IF safety_check(query) # <<>> THEN <<>> ELSE <<query>>

\* query_ontology(sparql): parsing the graphs or the query fails inside try
query_ontology(sparql, env) ==
    IF env = "fails" THEN [error |-> "str(e)"]
    ELSE [variables |-> <<>>, rows |-> <<>>, row_count |-> 0]

\* search_metadata builds this value when every file can be read
search_metadata_results ==
    [datasets |-> <<>>, glossary_matches |-> <<>>, lineage |-> <<>>,
     quality_assertions |-> <<>>]

\* no value yet
NoResult == <<>>

ToolInit ==
    /\ qpc = "call"
    /\ qres = NoResult
    /\ dbsent = <<>>
    /\ qenv \in {"works", "fails"}

\* dispatch_tool('sql_query', arguments)
DispatchSqlQuery ==
    /\ qpc = "call"
    /\ qcall.tool_name = "sql_query"
    /\ IF "query" \in DOMAIN qcall.arguments
       THEN /\ qres' = execute_sql_query(qcall.arguments.query, qenv)
            /\ dbsent' = dbsent \o statements_sent(qcall.arguments.query)
            /\ qpc' = "returned"
       ELSE /\ qres' = [raised |-> "KeyError"]
            /\ dbsent' = dbsent
            /\ qpc' = "raised"
    /\ UNCHANGED <<qcall, qenv>>
    /\ UNCHANGED toolOthers

\* dispatch_tool('metadata_search', arguments): search_metadata opens the
\* files of the catalog outside any try
DispatchMetadataSearch ==
    /\ qpc = "call"
    /\ qcall.tool_name = "metadata_search"
    /\ IF "search_term" \notin DOMAIN qcall.arguments
       THEN qres' = [raised |-> "TypeError"] /\ qpc' = "raised"
       ELSE IF qenv = "fails"
       THEN qres' = [raised |-> "FileNotFoundError"] /\ qpc' = "raised"
       ELSE qres' = search_metadata_results /\ qpc' = "returned"
    /\ UNCHANGED <<qcall, qenv, dbsent>>
    /\ UNCHANGED toolOthers

\* dispatch_tool('ontology_query', arguments)
DispatchOntologyQuery ==
    /\ qpc = "call"
    /\ qcall.tool_name = "ontology_query"
    /\ IF "sparql" \in DOMAIN qcall.arguments
       THEN /\ qres' = query_ontology(qcall.arguments.sparql, qenv)
            /\ qpc' = "returned"
       ELSE /\ qres' = [raised |-> "KeyError"]
            /\ qpc' = "raised"
    /\ UNCHANGED <<qcall, qenv, dbsent>>
    /\ UNCHANGED toolOthers

\* dispatch_tool with any other name
DispatchUnknown ==
    /\ qpc = "call"
    /\ qcall.tool_name \notin {"sql_query", "metadata_search", "ontology_query"}
    /\ qres' = [error |-> "Unknown tool", tool_name |-> qcall.tool_name]
    /\ qpc' = "returned"
    /\ UNCHANGED <<qcall, qenv, dbsent>>
    /\ UNCHANGED toolOthers

dispatch_tool ==
    \/ DispatchSqlQuery
    \/ DispatchMetadataSearch
    \/ DispatchOntologyQuery
    \/ DispatchUnknown

\* the pieces the queries are put together from
QueryPieces ==
    { KwSelect,
      <<"w", "i", "t", "h">>,
      <<"D", "E", "L", "E", "T", "E">>,
      <<"i", "n", "s", "e", "r", "t">>,
      <<"U", "p", "d", "a", "t", "e">>,
      <<"D", "R", "O", "P">>,
      <<"a", "l", "t", "e", "r">>,
      <<"T", "R", "U", "N", "C", "A", "T", "E">>,
      <<"c", "r", "e", "a", "t", "e">>,
      <<" ">>, <<"_">>, <<"x">> }

\* every query of up to MaxPieces pieces
Queries ==
    UNION { {Flatten(ps) : ps \in [1..n -> QueryPieces]} : n \in 0..MaxPieces }

\* the argument dictionary without the key the tool reads
NoArguments == [k \in {} |-> k]

ToolCalls ==
    {[tool_name |-> "sql_query", arguments |-> [query |-> q]] : q \in Queries}
    \cup {[tool_name |-> "metadata_search", arguments |-> [search_term |-> <<"x">>]],
          [tool_name |-> "ontology_query", arguments |-> [sparql |-> KwSelect]],
          [tool_name |-> "web_search", arguments |-> [query |-> KwSelect]]}
    \cup {[tool_name |-> t, arguments |-> NoArguments] :
             t \in {"sql_query", "metadata_search", "ontology_query"}}

ToolIdle ==
    /\ qcall = [tool_name |-> "sql_query", arguments |-> [query |-> KwSelect]]
    /\ qenv = "works"

ToolAny == qcall \in ToolCalls

\* ------------------------------------------------------------------------
\* Specifications
\* ------------------------------------------------------------------------
\* every part in its initial state
InitParts ==
    /\ OrchInit
    /\ RegInit
    /\ BulkInit
    /\ AccInit
    /\ GlInit
    /\ WhInit
    /\ TxInit
    /\ CustInit
    /\ ToolInit
    /\ RefInit

\* the configuration a part starts from when it does not act
TxIdle ==
    /\ tsrc = <<AccountRow("active", "current_account", "personal")>>
    /\ trng = "any"

AccIdle == anp = 0 /\ adraw = "fresh"

GlIdle == gimb = OwnBatch

\* the status, category and customer type an account can have
AccountKinds ==
    { AccountRow("active", "current_account", "personal"),
      AccountRow("dormant", "current_account", "personal"),
      AccountRow("closed", "current_account", "personal"),
      AccountRow("in_arrears", "personal_loan", "personal"),
      AccountRow("default", "mortgage", "personal"),
      AccountRow("active", "business_current", "business"),
      AccountRow("active", "current_account", None) }

\* one account, every draw: the amounts of the records
TxAmounts ==
    /\ tsrc \in { <<AccountRow("active", c, "personal")>> :
                     c \in {"current_account", "savings"} }
    /\ trng = "any"

\* up to MaxAccounts accounts of every kind, a steady stream of draws: the
\* accounts that get transactions and the inserts of the buffer
TxFlow ==
    /\ tsrc \in UNION {[1..n -> AccountKinds] : n \in 1..MaxAccounts}
    /\ trng = "steady"

CustIdle == ccfg = [customer_count |-> 1, personal_ratio_pct |-> 0,
                    missing_postcode_count |-> 0]

\* the whole Customers stage on a few customers
CustSmall ==
    ccfg \in CustConfigs(1..CUSTOMER_COUNT, RatioChoices, 0..MISSING_POSTCODE_COUNT)

\* the split alone, for every ratio of two decimals
CustCounts == ccfg \in CustConfigs(1..MaxCustomerCount, 0..100, {0})

Init == AccIdle /\ GlIdle /\ WhIdle /\ TxIdle /\ CustIdle /\ ToolIdle /\ RefIdle /\ InitParts

InitAccounts == GlIdle /\ WhIdle /\ TxIdle /\ CustIdle /\ ToolIdle /\ RefIdle /\ InitParts

InitGL == AccIdle /\ WhIdle /\ TxIdle /\ CustIdle /\ ToolIdle /\ RefIdle /\ InitParts

InitWarehouse == AccIdle /\ GlIdle /\ TxIdle /\ CustIdle /\ ToolIdle /\ RefIdle /\ InitParts

InitTransactions == AccIdle /\ GlIdle /\ WhIdle /\ CustIdle /\ ToolIdle /\ RefIdle /\ TxAmounts /\ InitParts

InitCustomers == AccIdle /\ GlIdle /\ WhIdle /\ TxIdle /\ CustSmall /\ ToolIdle /\ RefIdle /\ InitParts

InitCustomerSplit == AccIdle /\ GlIdle /\ WhIdle /\ TxIdle /\ CustCounts /\ ToolIdle /\ RefIdle /\ InitParts

InitTransactionFlow == AccIdle /\ GlIdle /\ WhIdle /\ CustIdle /\ ToolIdle /\ RefIdle /\ TxFlow /\ InitParts

InitTools == AccIdle /\ GlIdle /\ WhIdle /\ TxIdle /\ CustIdle /\ ToolAny /\ RefIdle /\ InitParts

InitReferences == AccIdle /\ GlIdle /\ WhIdle /\ TxIdle /\ CustIdle /\ ToolIdle /\ InitParts

Next == OrchNext

Spec == Init /\ [][Next]_vars

SpecRegistry == Init /\ [][RegNext]_vars

SpecBulk == Init /\ [][BulkNext]_vars

SpecAccounts == InitAccounts /\ [][AccNext]_vars

SpecGL == InitGL /\ [][GlNext]_vars

SpecWarehouse == InitWarehouse /\ [][WhNext]_vars

SpecTransactions == InitTransactions /\ [][TxNext]_vars

SpecTransactionFlow == InitTransactionFlow /\ [][TxNext]_vars

SpecCustomers == InitCustomers /\ [][CustNext]_vars

SpecCustomerSplit == InitCustomerSplit /\ [][CustSplit]_vars

SpecTools == InitTools /\ [][dispatch_tool]_vars

SpecReferences == InitReferences /\ [][RefNext]_vars

\* ------------------------------------------------------------------------
\* Properties of the registry
\* ------------------------------------------------------------------------
Lookups == {"get_ids", "count", "get_random_ids", "get_random_id"}

\* the last call was a lookup of a type that is not registered
FailedLookup == rcall.op \in Lookups /\ rcall.t \notin DOMAIN rstore

\* C6: a lookup (get_ids, count, get_random_ids, get_random_id) of a type
\* that is not registered fails with a not-found error that names the type
\* and lists the registered types; it never returns an empty set, and it
\* leaves the registry unchanged.
C6_LookupOfUnregisteredFails ==
    /\ [](FailedLookup =>
            /\ rres.kind = "KeyError"
            /\ rres.requested = rcall.t
            /\ rres.available = DOMAIN rstore)
    /\ [][rcall'.op \in Lookups => rstore' = rstore]_vars

\* count was called for an unregistered type while another type was registered
C6_Witness ==
    /\ rcall = [op |-> "count", t |-> "account_ids"]
    /\ DOMAIN rstore = {"customer_ids"}
    /\ rres.kind = "KeyError"

\* C25 as stated: across every call a registered type stays registered and
\* the ids stored for it keep every id they held.
C25_Original ==
    [][\A t \in DOMAIN rstore :
          /\ t \in DOMAIN rstore'
          /\ Range(rstore[t]) \subseteq Range(rstore'[t])]_vars

\* C25 as amended: across every call a registered type stays registered,
\* and the ids stored for a type keep every id they held unless the call
\* is a register for that very type.
C25_RegisteredTypesStay ==
    [][\A t \in DOMAIN rstore :
          /\ t \in DOMAIN rstore'
          /\ (rcall'.op = "register" /\ rcall'.t = t)
                \/ Range(rstore[t]) \subseteq Range(rstore'[t])]_vars

\* a type was registered again with no ids while the other type is
\* registered with two
C25_Witness ==
    /\ rcall.op = "register"
    /\ rcall.t = "customer_ids"
    /\ rstore["customer_ids"] = <<>>
    /\ "account_ids" \in DOMAIN rstore
    /\ Len(rstore["account_ids"]) = 2

\* C26: right after register(t, ids) a get_ids(t) answers exactly ids, in
\* the order given; the call leaves every other type as it was and adds no
\* type but t.
C26_RegisterIsLastWriteWins ==
    /\ [](rcall.op = "register" =>
            get_ids(rstore, rcall.t) = [kind |-> "ok", ids |-> rcall.ids])
    /\ [][rcall'.op = "register" =>
            /\ DOMAIN rstore' = DOMAIN rstore \cup {rcall'.t}
            /\ \A u \in DOMAIN rstore \ {rcall'.t} : rstore'[u] = rstore[u]
            /\ (rcall.op = "register" /\ rcall'.t = rcall.t
                  /\ rcall'.ids = rcall.ids) => rstore' = rstore]_vars

\* ids that are not in ascending order were registered for a type while
\* the other type holds other ids
C26_Witness ==
    /\ rcall.op = "register"
    /\ rcall.t = "account_ids"
    /\ rcall.ids = <<2, 1>>
    /\ rstore["account_ids"] = <<2, 1>>
    /\ "customer_ids" \in DOMAIN rstore
    /\ rstore["customer_ids"] = <<1>>

\* ------------------------------------------------------------------------
\* Properties of bulk_insert
\* ------------------------------------------------------------------------
\* C8: a bulk_insert call is one unit of work: no row of the call is
\* committed while its batches execute, the commit happens once, after the
\* last batch; a call that raised persisted none of its records and a call
\* that returned persisted all of them.
C8_BulkInsertIsOneUnitOfWork ==
    /\ bpc = "batches" => (btable[bcalls] = 0 /\ bcommits = 0)
    /\ bpc = "raised" => (btable[bcalls] = 0 /\ bcommits = 0 /\ btx = 0)
    /\ bpc = "returned" =>
          /\ btable[bcalls] = blen
          /\ btx = 0
          /\ bcommits = IF blen = 0 THEN 0 ELSE 1
    /\ \A c \in DOMAIN btable : btable[c] \in RecordCounts

\* a call of three batches failed in its last batch after an earlier call
\* had returned
C8_Witness ==
    /\ bpc = "raised"
    /\ blen = 2 * BATCH_SIZE + 1
    /\ bi = 2 * BATCH_SIZE
    /\ bcalls = 2
    /\ btable[1] = BATCH_SIZE + 1

\* ------------------------------------------------------------------------
\* Properties of the orchestrator
\* ------------------------------------------------------------------------
EvIdx == 1..Len(events)

\* the tables filled by step k of the steps list
TablesOfStep(k) ==
    {GenOf(run(steps[k].module)[i]).table : i \in 1..Len(run(steps[k].module))}

\* the entity types registered by step k of the steps list
TypesOfStep(k) ==
    UNION {GenOf(run(steps[k].module)[i]).regs : i \in 1..Len(run(steps[k].module))}

StepsBelow(n) == {k \in 1..NSteps : steps[k].num < n}

\* the current process was asked to generate from step 1
FullRun == proc # "none" /\ ~args.schema_only /\ args.step = 1

\* the current process was asked to generate from a step N > 1
Restarted == proc # "none" /\ ~args.schema_only /\ args.step > 1

\* C3: a run resumed with --step N after step N failed executes no stage
\* below N and leaves the rows of the stages below N as they were (neither
\* deleted nor duplicated).
C3_ResumeKeepsEarlierStages ==
    resumed =>
        /\ \A i \in EvIdx : events[i].ev = "start" => events[i].n >= args.step
        /\ \A k \in StepsBelow(args.step) :
              \A t \in TablesOfStep(k) : db[t] = snap[t]

\* C4: in a run restarted from step N > 1 every registry read succeeds and
\* returns the ids of the rows the earlier stages persisted.
C4_RestartRegistryReadsSucceed ==
    Restarted =>
        /\ failure # "KeyError"
        /\ \A i \in EvIdx : events[i].ev # "get_ids_failed"
        /\ \A t \in DOMAIN store : store[t] = Ids(db[Producer(t).table])

\* every successful registry read of the current process comes after the
\* commit of the producing generator's rows and after register of that type
ReadsAfterRegister ==
    \A k \in EvIdx :
        events[k].ev = "get_ids" =>
            \E j \in 1..(k - 1) :
                /\ events[j] = E("register", 0, events[k].x)
                /\ \E i \in 1..(j - 1) :
                      events[i] = E("persist", 0, Producer(events[k].x).name)

\* every registered type was registered after its rows were committed
RegisteredAfterPersist ==
    \A t \in DOMAIN store :
        \E j \in EvIdx :
            /\ events[j] = E("register", 0, t)
            /\ \E i \in 1..(j - 1) :
                  events[i] = E("persist", 0, Producer(t).name)

NoReadRaises ==
    /\ failure # "KeyError"
    /\ \A i \in EvIdx : events[i].ev # "get_ids_failed"

\* C5 as stated: in a full run from step 1 every get_ids(t) comes after
\* persist(t) and register(t), no get_ids raises, and if a stage's insert
\* fails the registry is left without that stage's entries.
C5_Original ==
    FullRun =>
        /\ ReadsAfterRegister
        /\ RegisteredAfterPersist
        /\ NoReadRaises
        /\ failure = "insert" => \A t \in TypesOfStep(step) : t \notin DOMAIN store

\* C5 as amended: in a full run from step 1 every get_ids(t) comes after
\* persist(t) and register(t), no get_ids raises, and if the insert of a
\* generator function fails the registry is left without the entries that
\* function registers (entries registered by functions that ran earlier in
\* the same stage stay).
C5_RegisterAfterPersist ==
    FullRun =>
        /\ ReadsAfterRegister
        /\ RegisteredAfterPersist
        /\ NoReadRaises
        /\ failure = "insert" => \A t \in CurGen.regs : t \notin DOMAIN store

\* a full run in which registry reads succeeded and then an insert failed
C5_Witness ==
    /\ FullRun
    /\ failure = "insert"
    /\ CurGen.name = "generate_credit_applications"
    /\ \E i \in EvIdx : events[i] = E("get_ids", 0, "active_customer_ids")
    /\ "account_ids" \in DOMAIN store

\* C7: when a stage raises, the orchestrator reports the number of the failing
\* step and the process exits with a non-zero code; no later stage is started,
\* the failing stage is not started again and the summary is not printed.
C7_StageFailureStopsRun ==
    failure \in {"KeyError", "insert"} =>
        /\ proc = "exit1"
        /\ reported = steps[step].num
        /\ events[Len(events)] = E("fail", reported, "")
        /\ ~summary
        /\ \A i \in EvIdx : events[i].ev # "summary"
        /\ \A i \in EvIdx : events[i].ev = "start" => events[i].n <= reported
        /\ Cardinality({i \in EvIdx : events[i] = E("start", reported, "")}) = 1
        /\ Cardinality({i \in EvIdx : events[i].ev = "fail"}) = 1
        /\ \A i \in EvIdx : events[i] # E("done", reported, "")

\* the Risk stage failed after the stages before it had completed
C7_Witness ==
    /\ failure = "insert"
    /\ proc = "exit1"
    /\ reported = 4
    /\ \E i \in EvIdx : events[i] = E("done", 3, "")

\* the steps of the list that run the given generator module
StepsOfModule(m) == {k \in 1..NSteps : steps[k].module = m}

\* C9: a successful full run executes every generation stage the
\* specification names exactly once, all entity stages before the Warehouse
\* Build stage, and the Payments stage has populated its tables.
C9_AllStagesRunOnce ==
    (FullRun /\ proc = "exit0") =>
        /\ \A m \in SpecStages :
              Cardinality({i \in EvIdx : /\ events[i].ev = "done"
                                         /\ events[i].n \in {steps[k].num : k \in StepsOfModule(m)}}) = 1
        /\ \A i, j \in EvIdx :
              (/\ events[i].ev = "done"
               /\ events[j].ev = "start"
               /\ events[j].n \in {steps[k].num :
                      k \in StepsOfModule("generators.generate_warehouse")}
               /\ events[i].n \notin {steps[k].num :
                      k \in StepsOfModule("generators.generate_warehouse")}) => i < j
        /\ \A g \in {"generate_standing_orders", "generate_direct_debits",
                      "generate_payment_flows"} : db[GenOf(g).table] > 0

\* C10: every generator function draws only from a random stream of its own:
\* no stream (same kind, same seed) is drawn from by two generator functions.
C10_OwnStreamPerGenerator ==
    \A d1, d2 \in draws :
        (d1.kind = d2.kind /\ d1.seed = d2.seed) => d1.gen = d2.gen

\* ------------------------------------------------------------------------
\* Properties of the Accounts stage
\* ------------------------------------------------------------------------
\* the account rows whose customer_id resolves to no customer row
Dangling == {k \in DOMAIN atable : atable[k].customer_id \notin CustomerIds}

RegisteredCustomers ==
    Range(get_ids(areg, "personal_customer_ids").ids)
        \cup Range(get_ids(areg, "business_customer_ids").ids)

\* C1: after the Accounts stage the account rows whose customer_id resolves
\* to no customer are exactly the ORPHANED_ACCOUNTS orphans: every other
\* account references a registered customer id, and the i-th orphan
\* references max_customer_id + 1000 + i, which is no customer id.
C1_ExactlyTheOrphansDangle ==
    apc = "done" =>
        /\ Cardinality(Dangling) = ORPHANED_ACCOUNTS
        /\ Cardinality({k \in DOMAIN atable : atable[k].orphan > 0}) = ORPHANED_ACCOUNTS
        /\ \A k \in DOMAIN atable :
              IF atable[k].orphan = 0
              THEN /\ atable[k].customer_id \in RegisteredCustomers
                   /\ atable[k].customer_id \in CustomerIds
              ELSE /\ atable[k].customer_id
                        = CUSTOMER_COUNT + 1000 + (atable[k].orphan - 1)
                   /\ atable[k].customer_id \notin CustomerIds

\* the stage completed with a personal and a business customer holding
\* several accounts
C1_Witness ==
    /\ apc = "done"
    /\ anp = 1
    /\ Len(atable) >= 4 + ORPHANED_ACCOUNTS
    /\ Cardinality(Dangling) > 0

\* ------------------------------------------------------------------------
\* Properties of the General Ledger stage
\* ------------------------------------------------------------------------
Batches == {gtable[k].batch_id : k \in DOMAIN gtable}

RECURSIVE SumDebit(_, _)
SumDebit(rows, b) ==
    IF rows = <<>> THEN 0
    ELSE (IF Head(rows).batch_id = b THEN Head(rows).debit_amount ELSE 0)
         + SumDebit(Tail(rows), b)

RECURSIVE SumCredit(_, _)
SumCredit(rows, b) ==
    IF rows = <<>> THEN 0
    ELSE (IF Head(rows).batch_id = b THEN Head(rows).credit_amount ELSE 0)
         + SumCredit(Tail(rows), b)

Imbalance(b) == SumDebit(gtable, b) - SumCredit(gtable, b)

\* C2: after the GL stage every batch has equal debit and credit sums, except
\* exactly one, the configured imbalance batch, whose debits exceed its
\* credits by 500.00.
C2_OneImbalancedBatch ==
    gpc = "done" =>
        /\ \A b \in Batches \ {gimb} : Imbalance(b) = 0
        /\ gimb \in Batches
        /\ Imbalance(gimb) = 50000
        /\ Cardinality({b \in Batches : Imbalance(b) # 0}) = 1

\* the stage completed after a flush in the middle of the day loop, with the
\* imbalanced pair under a batch id of its own
C2_Witness ==
    /\ gpc = "done"
    /\ gimb = OwnBatch
    /\ Len(gtable) >= 2 * GlDays + 4
    /\ Cardinality(Batches) = GlDays + 1

\* C18: no two accounts of one run of the Accounts stage, the orphaned ones
\* included, carry the same (account number, sort code): the records built
\* so far and the rows inserted have as many distinct pairs as there are
\* records, and the pairs handed out are exactly the keys recorded as used.
C18_AccountKeysAreUnique ==
    /\ Cardinality({<<arecords[k].account_number, arecords[k].sort_code>> :
                        k \in DOMAIN arecords}) = Len(arecords)
    /\ used_account_numbers =
          {AccountKey(arecords[k].account_number, arecords[k].sort_code) :
              k \in DOMAIN arecords}
    /\ apc = "done" => atable = arecords

\* a finished run in which a drawn pair was already used and was drawn
\* again, orphaned accounts among the rows
C18_Witness ==
    /\ apc = "done"
    /\ apos > Len(atable)
    /\ \E k \in DOMAIN atable : atable[k].orphan > 0

\* C27: accounts_customer_id_fkey is absent only between the drop and the
\* re-declaration of the Accounts stage, that is while the stage inserts;
\* in every state in which the stage no longer executes, completed or
\* aborted, the constraint is declared, and after a completed stage it is
\* declared in non-validating mode.
C27_ConstraintDeclaredOutsideInsert ==
    /\ afk = "dropped" => apc \in {"insert", "addfk"}
    /\ apc \in {"done", "failed"} => afk \in {"valid", "not_valid"}
    /\ apc = "done" => afk = "not_valid"

\* C30: after the Accounts stage the registry entry account_ids holds the
\* ids of all persisted accounts, and active_account_ids holds exactly the
\* ids of the accounts whose status is active or in_arrears.
C30_ActiveAccountIdsRegistered ==
    apc = "done" =>
        /\ Range(get_ids(areg, "account_ids").ids) = DOMAIN atable
        /\ Range(get_ids(areg, "active_account_ids").ids)
              = {k \in DOMAIN atable : atable[k].status \in {"active", "in_arrears"}}

StagingDone == wpc \in {"core_dimensions", "core_facts", "reporting", "done"}

\* C12: once the staging phase has completed, every row of the three fixed
\* stale tables carries the stale batch id and the stale ingestion time,
\* every row of every other staging table carries the current batch id, and
\* the number of stale tables is the configured stale_table_count the phase
\* reported.
C12_StaleSetIsTheReportedCount ==
    StagingDone =>
        /\ \A t \in StagingTables : \A i \in DOMAIN wh[t] :
              IF t \in {"warehouse_staging.stg_credit_scores",
                        "warehouse_staging.stg_risk_assessments",
                        "warehouse_staging.stg_aml_alerts"}
              THEN /\ wh[t][i].meta_batch_id = stale_batch_id
                   /\ wh[t][i].meta_ingested_at = StaleIngestedAt
              ELSE /\ wh[t][i].meta_batch_id = batch_id(wcfg)
                   /\ wh[t][i].meta_ingested_at = wnow
        /\ wreport = wcfg.stale_table_count
        /\ Cardinality({t \in StagingTables : \A i \in DOMAIN wh[t] :
                            wh[t][i].meta_ingested_at = StaleIngestedAt
                            /\ wh[t][i].meta_batch_id = stale_batch_id
                            /\ t \in stale_tables}) = wreport

\* ------------------------------------------------------------------------
\* Properties of the Transactions stage
\* ------------------------------------------------------------------------
Forced(rows) == {k \in DOMAIN rows : rows[k].forced}

\* C13: the number of amounts forced to 0 never exceeds ZERO_AMOUNT_TXNS;
\* an amount is forced when its record is made, in the loop, so the counter
\* is always the number of forced records made so far (inserted or
\* buffered); and at the end the count the stage reports is the number of
\* forced amounts, all of them inserted and equal to 0.
C13_ForcedZerosCappedAndReported ==
    /\ tzero <= ZERO_AMOUNT_TXNS
    /\ tpc # "failed" => Cardinality(Forced(ttable)) + Cardinality(Forced(trecords)) = tzero
    /\ \A k \in Forced(ttable) : ttable[k].amount = 0
    /\ tpc = "done" =>
          /\ treport = Cardinality(Forced(ttable))
          /\ treport <= ZERO_AMOUNT_TXNS

\* the stage completed with fewer forced zeros than configured, or with one
\* forced zero among other records
C13_Witness ==
    /\ tpc = "done"
    /\ treport = 1
    /\ Len(ttable) > 1

\* C14: every persisted atm_withdrawal has an amount whose absolute value is
\* a multiple of 10 between 10 and 500.
C14_AtmAmountsInRange ==
    \A k \in DOMAIN ttable :
        ttable[k].txn_type = "atm_withdrawal" =>
            LET a == 0 - ttable[k].amount
            IN a % 1000 = 0 /\ a >= 1000 /\ a <= 50000

\* C15: every persisted amount is at most 500,000 in magnitude, non-negative
\* for the credit types salary, transfer_in and interest, and non-positive
\* for every other type.
C15_AmountCeilingAndSign ==
    \A k \in DOMAIN ttable :
        LET a == ttable[k].amount
        IN /\ a <= 50000000 /\ 0 - a <= 50000000
           /\ IF ttable[k].txn_type \in {"salary", "transfer_in", "interest"}
              THEN a >= 0 ELSE a <= 0

\* a credit at the ceiling and a debit were persisted
C15_Witness ==
    /\ tpc = "done"
    /\ \E k \in DOMAIN ttable : ttable[k].amount = 50000000
    /\ \E k \in DOMAIN ttable : ttable[k].amount < 0 /\ ~ttable[k].forced

\* the (account, i) of the records of a list
TxnKeys(rows) == {<<rows[k].account_id, rows[k].seq>> : k \in DOMAIN rows}

IsPrefix(a, b) == Len(a) <= Len(b) /\ SubSeq(b, 1, Len(a)) = a

\* C28: every record the Transactions stage generates is handed to the
\* persistence adapter exactly once: while the stage runs the inserted and
\* the buffered records are total_txns different records, the buffer holds
\* fewer than the flush threshold when the next account starts, and at the
\* end every record is inserted once and the buffer is empty; no step, a
\* failing insert included, removes a row inserted earlier.
C28_EveryRecordInsertedOnce ==
    /\ [](tpc # "failed" =>
            /\ Len(ttable) + Len(trecords) = ttotal
            /\ Cardinality(TxnKeys(ttable) \cup TxnKeys(trecords)) = ttotal)
    /\ [](tpc = "account" => Len(trecords) < TxnFlushAt)
    /\ [](tpc = "done" => trecords = <<>> /\ Len(ttable) = ttotal)
    /\ [][IsPrefix(ttable, ttable')]_vars

\* the stage failed in a later insert after an earlier insert was committed
C28_Witness ==
    /\ tpc = "failed"
    /\ Len(ttable) >= TxnFlushAt
    /\ tacct > Len(taccounts)
    /\ trecords # <<>>

\* the accounts that have a record in a list
TxnAccounts(rows) == {rows[k].account_id : k \in DOMAIN rows}

\* C29: every transaction generated belongs to an account whose status is
\* active or in_arrears, and when the stage is done every such account, an
\* account with no customer included, has at least one transaction.
C29_TransactionsForActiveAccountsOnly ==
    LET Active == {k \in DOMAIN tsrc : tsrc[k].status \in {"active", "in_arrears"}}
    IN /\ TxnAccounts(ttable) \cup TxnAccounts(trecords) \subseteq Active
       /\ tpc = "done" => TxnAccounts(ttable) = Active

\* the stage is done for a closed account and an active account that has no
\* customer
C29_Witness ==
    /\ tpc = "done"
    /\ \E k \in DOMAIN tsrc : tsrc[k].status = "closed"
    /\ \E k \in DOMAIN tsrc :
          /\ tsrc[k].customer_type = None
          /\ k \in TxnAccounts(ttable)

\* C22: every row of fact_transactions carries the key of a dim_customer
\* row and the key of a dim_account row, although the staged transactions
\* include transactions of an account whose customer does not exist.
C22_FactKeysResolve ==
    LET ft == wh["warehouse_core.fact_transactions"]
        dc == wh["warehouse_core.dim_customer"]
        da == wh["warehouse_core.dim_account"]
    IN \A i \in DOMAIN ft :
          /\ \E c \in DOMAIN dc : dc[c].key = ft[i].customer_key
          /\ \E a \in DOMAIN da : da[a].key = ft[i].account_key

\* the facts are built, some from a transaction of the first customer, and
\* a transaction of the orphaned account was staged
C22_Witness ==
    /\ wpc \in {"reporting", "done"}
    /\ wh["warehouse_core.fact_transactions"] # <<>>
    /\ \E i \in DOMAIN wh["warehouse_staging.stg_transactions"] :
          wh["warehouse_staging.stg_transactions"][i].account_id = 2
    /\ \E a \in DOMAIN wh["warehouse_core.dim_account"] :
          wh["warehouse_core.dim_account"][a].customer_id \notin Range(WhCustomerIds)

\* ------------------------------------------------------------------------
\* Properties of the references between the source tables
\* ------------------------------------------------------------------------
\* every row of table child names, in column, the id of a row of parent
Resolves(child, column, parent) ==
    \A k \in DOMAIN ftab[child] : ftab[child][k][column] \in DOMAIN ftab[parent]

\* C21: when the last generator function has run, every transaction names
\* an existing account, every address, contact, credit score and AML alert
\* an existing customer, every interaction an existing contact, and the only
\* accounts that name no existing customer are the orphaned accounts.
C21_OnlyOrphanedAccountsDangle ==
    fpc = "done" =>
        /\ Resolves("core_banking.transactions", "account_id", "core_banking.accounts")
        /\ Resolves("core_banking.addresses", "customer_id", "core_banking.customers")
        /\ Resolves("crm.contacts", "customer_id", "core_banking.customers")
        /\ Resolves("risk.credit_scores", "customer_id", "core_banking.customers")
        /\ Resolves("risk.aml_alerts", "customer_id", "core_banking.customers")
        /\ Resolves("crm.interactions", "contact_id", "crm.contacts")
        /\ \A k \in DOMAIN ftab["core_banking.accounts"] :
              ftab["core_banking.accounts"][k].customer_id
                    \notin DOMAIN ftab["core_banking.customers"]
              => ftab["core_banking.accounts"][k].orphan > 0

\* the run is over, every table has rows, and an orphaned account has a
\* transaction
C21_Witness ==
    /\ fpc = "done"
    /\ \A t \in DOMAIN ftab : ftab[t] # <<>>
    /\ \E k \in DOMAIN ftab["core_banking.transactions"] :
          ftab["core_banking.accounts"]
              [ftab["core_banking.transactions"][k].account_id].orphan > 0

\* ------------------------------------------------------------------------
\* Properties of the query tools
\* ------------------------------------------------------------------------
\* two texts are the same up to the case of their letters
SameLetters(a, b) ==
    Len(a) = Len(b) /\ \A i \in DOMAIN a : upper_char(a[i]) = upper_char(b[i])

\* word begins the query, leading whitespace and case set aside
BeginsWith(q, word) ==
    \E i \in 1..(Len(q) - Len(word) + 1) :
        /\ \A j \in 1..(i - 1) : q[j] \in Whitespace
        /\ SameLetters(SubSeq(q, i, i + Len(word) - 1), word)

\* word occurs in the query as a whole word, case set aside
ContainsWord(q, word) ==
    \E i \in 1..(Len(q) - Len(word) + 1) :
        /\ SameLetters(SubSeq(q, i, i + Len(word) - 1), word)
        /\ i = 1 \/ ~IsWordChar(q[i - 1])
        /\ i + Len(word) - 1 = Len(q) \/ ~IsWordChar(q[i + Len(word)])

\* the queries sql_query must refuse
Refused(q) ==
    \/ ~BeginsWith(q, KwSelect) /\ ~BeginsWith(q, KwWith)
    \/ \E k \in DOMAIN dangerous : ContainsWord(q, dangerous[k])

\* the query of a call of sql_query that has come back
SqlQueryDone ==
    /\ qpc # "call"
    /\ qcall.tool_name = "sql_query"
    /\ "query" \in DOMAIN qcall.arguments

\* C23: a call of sql_query with a query that does not begin with SELECT or
\* WITH, or that contains one of the seven keywords as a whole word in any
\* case, returns a value with an error field and nothing was sent to the
\* database.
C23_RefusedQueriesAreNotSent ==
    (SqlQueryDone /\ Refused(qcall.arguments.query)) =>
        /\ qpc = "returned"
        /\ "error" \in DOMAIN qres
        /\ dbsent = <<>>

\* a query that begins with SELECT and holds a lower-case keyword as a
\* whole word has been refused
C23_Witness ==
    /\ SqlQueryDone
    /\ BeginsWith(qcall.arguments.query, KwSelect)
    /\ ContainsWord(qcall.arguments.query, <<"i", "n", "s", "e", "r", "t">>)
    /\ "error" \in DOMAIN qres
    /\ dbsent = <<>>

\* the arguments hold the key the tool reads
ArgumentsComplete ==
    /\ qcall.tool_name = "sql_query" => "query" \in DOMAIN qcall.arguments
    /\ qcall.tool_name = "metadata_search" => "search_term" \in DOMAIN qcall.arguments
    /\ qcall.tool_name = "ontology_query" => "sparql" \in DOMAIN qcall.arguments

\* the tool called has failed: the name is unknown, the query was refused,
\* or the database, the catalog files or the ontology failed under it
ToolFailed ==
    \/ qcall.tool_name \notin {"sql_query", "metadata_search", "ontology_query"}
    \/ qcall.tool_name = "sql_query" /\ (dbsent = <<>> \/ qenv = "fails")
    \/ qcall.tool_name # "sql_query" /\ qenv = "fails"

\* C24: whatever fails inside a tool called through dispatch_tool with
\* complete arguments, the call returns, and the value returned has an
\* error field; no exception leaves dispatch_tool.
C24_FailuresAreReturned ==
    (qpc # "call" /\ ArgumentsComplete /\ ToolFailed) =>
        qpc = "returned" /\ "error" \in DOMAIN qres

\* ------------------------------------------------------------------------
\* Properties of the Customers stage
\* ------------------------------------------------------------------------
\* the customer rows generated so far: the records list while
\* generate_customers builds it, and the rows of the table
GeneratedCustomers ==
    Range(ctable) \cup
    (IF cpc \in {"personal", "business", "insert"} THEN Range(crecords) ELSE {})

PrimaryRows == {k \in DOMAIN caddresses : caddresses[k].is_primary}

\* C16: when the Customers stage is done, every registered customer has
\* exactly one primary address; the customers whose primary address has no
\* postcode are missing_postcode_count different registered customers, the
\* ones that were drawn; and no address that is not primary lacks a postcode.
C16_MissingPostcodesOnPrimaryOnly ==
    cpc = "done" =>
        LET customer_ids == Range(get_ids(creg, "customer_ids").ids)
            Affected == {caddresses[k].customer_id :
                            k \in {j \in PrimaryRows : caddresses[j].postcode = None}}
        IN /\ \A cid \in customer_ids :
                 Cardinality({k \in PrimaryRows :
                                 caddresses[k].customer_id = cid}) = 1
           /\ \A k \in DOMAIN caddresses : caddresses[k].customer_id \in customer_ids
           /\ Affected = cmissing
           /\ Affected \subseteq customer_ids
           /\ Cardinality(Affected) = ccfg.missing_postcode_count
           /\ \A k \in DOMAIN caddresses :
                 ~caddresses[k].is_primary => caddresses[k].postcode # None

\* a finished stage with two customers lacking a postcode, one of whom has
\* a correspondence address
C16_Witness ==
    /\ cpc = "done"
    /\ ccfg.missing_postcode_count = 2
    /\ \E k \in DOMAIN caddresses :
          /\ ~caddresses[k].is_primary
          /\ caddresses[k].customer_id \in cmissing

\* C19: once generate_customers has split the customers, n_personal is the
\* integer part of the exact product customer_count * personal_ratio,
\* n_business is the rest, and the two add up to customer_count.
C19_SplitIsFloorOfExactProduct ==
    cpc # "split" =>
        /\ csplit.n_personal
              = (ccfg.customer_count * ccfg.personal_ratio_pct) \div 100
        /\ csplit.n_business = ccfg.customer_count - csplit.n_personal
        /\ csplit.n_personal + csplit.n_business = ccfg.customer_count

\* C20: every generated customer is personal or business; a business
\* customer has no title, first_name, last_name, date_of_birth, gender,
\* nationality or ni_number, and a personal customer has no company_name,
\* company_reg_number or sic_code.
C20_IdentityVariantsExclusive ==
    \A r \in GeneratedCustomers :
        /\ r.type \in {"personal", "business"}
        /\ r.type = "business" =>
              /\ r.title = None
              /\ r.first_name = None
              /\ r.last_name = None
              /\ r.date_of_birth = None
              /\ r.gender = None
              /\ r.nationality = None
              /\ r.ni_number = None
        /\ r.type = "personal" =>
              /\ r.company_name = None
              /\ r.company_reg_number = None
              /\ r.sic_code = None

\* customers of both types have been inserted
C20_Witness ==
    /\ cpc = "done"
    /\ \E k \in DOMAIN ctable : ctable[k].type = "personal"
    /\ \E k \in DOMAIN ctable : ctable[k].type = "business"

TypeOK ==
    /\ runs \in 0..MaxRuns
    /\ proc \in {"none", "running", "exit0", "exit1"}
    /\ step \in 1..NSteps
    /\ DOMAIN store \subseteq UNION {g.regs : g \in Generators}

====
